---- MODULE Spec2Model ----
(***************************************************************************)
(* sap.ui.model.odata.v4.ODataMetaModel: path resolution over a lazily     *)
(* loaded OData v4 meta data graph (requestObject, requestMetaContext,     *)
(* requestUI5Type, requestCanonicalUrl).                                   *)
(*                                                                         *)
(* Strings that the code takes apart (paths, path segments) are sequences  *)
(* of tokens: "/" is the path separator, a word token is a maximal run of  *)
(* \w characters, every other token is punctuation.  Names of meta data    *)
(* objects are single tokens.  JavaScript objects live in a heap: an       *)
(* object is a function from its keys to values, a value is a record       *)
(* [k, s, a] with k the JavaScript type, s the string / number / object id *)
(* and a the element ids of an array.                                      *)
(***************************************************************************)
EXTENDS Naturals, Sequences, FiniteSets, TLC

\* longest data or meta path (in segments) a call is made with
MaxSegs == 3

\* most facets of the property whose descriptor varies
MaxFacets == 2

\* most elements selected in the dialog of the AdditionalElementsPlugin
MaxSelected == 3

\* most aggregations of an overlay with elements to add as children
MaxAggregations == 3
MaxOverlays == 2

----------------------------------------------------------------------------
(* JavaScript values *)

Str(x) == [k |-> "string", s |-> x, a |-> <<>>]
Num(x) == [k |-> "number", s |-> x, a |-> <<>>]
Bool(b) == [k |-> "boolean", s |-> IF b THEN "true" ELSE "false", a |-> <<>>]
Ref(id) == [k |-> "object", s |-> id, a |-> <<>>]
Arr(ids) == [k |-> "array", s |-> "", a |-> ids]
Undefined == [k |-> "undefined", s |-> "", a |-> <<>>]

\* the id that stands for "no object" (undefined)
NoObject == ""

----------------------------------------------------------------------------
(* The meta data of the service, as the meta data loader delivers it: the   *)
(* types of the entity sets, of the singleton and of the navigation        *)
(* properties within the service are placeholders until they are           *)
(* requested; EMPLOYEE_2_EQUIPMENT, which leads to another service, comes  *)
(* with its type in place.                                                 *)

EdmNames ==
    {"Boolean", "Byte", "Date", "DateTimeOffset", "Decimal", "Double", "Guid",
     "Int16", "Int32", "Int64", "SByte", "Single", "String"}

EdmId(n) == "EDM_" \o n

FacetNames == {"MaxLength", "Precision", "Scale"}

FacetId(n) == "F_" \o n

FacetValue(n) ==
    CASE n = "MaxLength" -> "10"
      [] n = "Precision" -> "16"
      [] n = "Scale" -> "2"

\* a property descriptor: EDM type, facets in document order, nullability
Descriptor(sEdm, aFacets, bNullable) ==
    [edm |-> sEdm, facets |-> aFacets, nullable |-> bNullable]

\* the facets of a property: no facet twice, at most MaxFacets of them
FacetLists ==
    UNION {{a \in [1..n -> FacetNames] : \A j, k \in 1..n : a[j] = a[k] => j = k} :
              n \in 0..MaxFacets}

\* the descriptors a property of a primitive type can have
Descriptors ==
    {Descriptor(sEdm, aFacets, bNullable) :
        sEdm \in EdmNames, aFacets \in FacetLists, bNullable \in BOOLEAN}

DefaultDescriptor == Descriptor("Decimal", <<"Precision", "MaxLength", "Scale">>, TRUE)

StaticIds ==
    {"EC", "ES_TEAMS", "ES_EMPLOYEES", "SI_Me", "B_T2E", "B_E2M", "B_E2Q",
     "X_EQUIPMENT", "PH_Team", "PH_Worker", "T_Team", "T_Worker",
     "T_Equipment", "N_T2E", "N_E2M", "N_E2Q", "P_Team_Name", "P_Worker_Name"}

ObjIds ==
    StaticIds \cup {EdmId(n) : n \in EdmNames} \cup {FacetId(n) : n \in FacetNames}

MetaData(d) ==
    [id \in ObjIds |->
        CASE id = "EC" ->
                [Name |-> Str("Container"), QualifiedName |-> Str("ns.Container"),
                 EntitySets |-> Arr(<<"ES_TEAMS", "ES_EMPLOYEES">>),
                 Singletons |-> Arr(<<"SI_Me">>)]
          [] id = "ES_TEAMS" ->
                [Name |-> Str("TEAMS"), Fullname |-> Str("ns.Container/TEAMS"),
                 EntityType |-> Ref("PH_Team"),
                 NavigationPropertyBindings |-> Arr(<<"B_T2E">>)]
          [] id = "ES_EMPLOYEES" ->
                [Name |-> Str("EMPLOYÉS"), Fullname |-> Str("ns.Container/EMPLOYÉS"),
                 EntityType |-> Ref("PH_Worker"),
                 NavigationPropertyBindings |-> Arr(<<"B_E2M", "B_E2Q">>)]
          [] id = "SI_Me" ->
                [Name |-> Str("Me"), Fullname |-> Str("ns.Container/Me"),
                 Type |-> Ref("PH_Worker")]
          [] id = "B_T2E" ->
                [Name |-> Str("TEAM_2_EMPLOYEES"), Target |-> Ref("ES_EMPLOYEES")]
          [] id = "B_E2M" ->
                [Name |-> Str("EMPLOYEE_2_MANAGER"), Target |-> Ref("SI_Me")]
          [] id = "B_E2Q" ->
                [Name |-> Str("EMPLOYEE_2_EQUIPMENT"), Target |-> Ref("X_EQUIPMENT")]
          [] id = "X_EQUIPMENT" ->
                [Fullname |-> Str("other.Container/EQUIPMENT"),
                 Service |-> Str("/other/service/")]
          [] id = "PH_Team" -> [QualifiedName |-> Str("ns.Team")]
          [] id = "PH_Worker" -> [QualifiedName |-> Str("ns.Worker")]
          [] id = "T_Team" ->
                [Name |-> Str("Team"), QualifiedName |-> Str("ns.Team"),
                 Properties |-> Arr(<<"P_Team_Name">>),
                 NavigationProperties |-> Arr(<<"N_T2E">>)]
          [] id = "T_Worker" ->
                [Name |-> Str("Worker"), QualifiedName |-> Str("ns.Worker"),
                 Properties |-> Arr(<<"P_Worker_Name">>),
                 NavigationProperties |-> Arr(<<"N_E2M", "N_E2Q">>)]
          [] id = "T_Equipment" ->
                [Name |-> Str("Equipment"), QualifiedName |-> Str("other.Equipment"),
                 Properties |-> Arr(<<>>), NavigationProperties |-> Arr(<<>>)]
          [] id = "N_T2E" ->
                [Name |-> Str("TEAM_2_EMPLOYEES"), Type |-> Ref("PH_Worker")]
          [] id = "N_E2M" ->
                [Name |-> Str("EMPLOYEE_2_MANAGER"), Type |-> Ref("PH_Worker")]
          [] id = "N_E2Q" ->
                [Name |-> Str("EMPLOYEE_2_EQUIPMENT"), Type |-> Ref("T_Equipment")]
          [] id = "P_Team_Name" ->
                [Name |-> Str("Name"), Type |-> Ref(EdmId("String")),
                 Facets |-> Arr(<<FacetId("MaxLength")>>), Nullable |-> Bool(FALSE)]
          [] id = "P_Worker_Name" ->
                [Name |-> Str("Name"), Type |-> Ref(EdmId(d.edm)),
                 Facets |-> Arr([j \in DOMAIN d.facets |-> FacetId(d.facets[j])]),
                 Nullable |-> Bool(d.nullable)]
          [] \E n \in EdmNames : id = EdmId(n) ->
                LET n == CHOOSE m \in EdmNames : id = EdmId(m)
                IN  [Name |-> Str(n), QualifiedName |-> Str("Edm." \o n)]
          [] \E n \in FacetNames : id = FacetId(n) ->
                LET n == CHOOSE m \in FacetNames : id = FacetId(m)
                IN  [Name |-> Str(n), Value |-> Num(FacetValue(n))]]

\* the type the meta data loader delivers for an unresolved type reference
LoadedType(h, sPlaceholder) ==
    CHOOSE t \in {"T_Team", "T_Worker"} :
        h[t].QualifiedName = h[sPlaceholder].QualifiedName

----------------------------------------------------------------------------
(* Regular expressions of the module *)

\* tokens that consist of \w characters only
DigitTokens == {"0", "1"}

WordTokens ==
    DigitTokens \cup
    {"TEAMS", "Me", "Name", "TEAM_2_EMPLOYEES", "EMPLOYEE_2_MANAGER",
     "EMPLOYEE_2_EQUIPMENT", "EntityType", "Type", "EntitySets",
     "Singletons", "Properties", "NavigationProperties",
     "NavigationPropertyBindings", "Target", "QualifiedName", "length"}

\* rEntitySetName.exec(sSegment): the identifier, or NoObject if there is no match
rEntitySetNameExec(sSegment) ==
    IF /\ Len(sSegment) >= 1
       /\ sSegment[1] \in WordTokens
       /\ (Len(sSegment) = 1 \/ sSegment[2] \in {"[", "("})
    THEN sSegment[1]
    ELSE NoObject

\* aSegments[i], with i counting from 0; the empty string for undefined
SegmentAt(aSegments, i) ==
    IF i + 1 <= Len(aSegments) THEN aSegments[i + 1] ELSE <<>>

\* aSegments[i] is neither undefined nor the empty string
Truthy(aSegments, i) == SegmentAt(aSegments, i) # <<>>

\* rNumber.test(aSegments[i])
rNumberTest(aSegments, i) ==
    LET sSegment == SegmentAt(aSegments, i)
    IN  Len(sSegment) = 1 /\ sSegment[1] \in DigitTokens

----------------------------------------------------------------------------
(* sap.ui.model.odata.v4._ODataHelper and sap.ui.model.Model, as the meta  *)
(* model uses them                                                         *)

RECURSIVE splitTokens(_, _, _)
splitTokens(aTokens, sCurrent, aDone) ==
    IF aTokens = <<>> THEN Append(aDone, sCurrent)
    ELSE IF Head(aTokens) = "/"
         THEN splitTokens(Tail(aTokens), <<>>, Append(aDone, sCurrent))
         ELSE splitTokens(Tail(aTokens), Append(sCurrent, Head(aTokens)), aDone)

\* Helper.splitPath: the segments of an absolute path, none for "/"
splitPath(sPath) ==
    IF sPath = <<"/">> THEN <<>> ELSE splitTokens(Tail(sPath), <<>>, <<>>)

\* Helper.parseSegment: "Property" or "Property('Name')"
parseSegment(sSegment) ==
    IF Len(sSegment) = 4 /\ sSegment[2] = "('" /\ sSegment[4] = "')"
    THEN [valid |-> TRUE, property |-> sSegment[1], named |-> TRUE, name |-> sSegment[3]]
    ELSE IF Len(sSegment) = 1
         THEN [valid |-> TRUE, property |-> sSegment[1], named |-> FALSE, name |-> ""]
         ELSE [valid |-> FALSE, property |-> "", named |-> FALSE, name |-> ""]

RECURSIVE findInArrayFrom(_, _, _, _, _)
findInArrayFrom(h, aIds, j, sProperty, sValue) ==
    IF j > Len(aIds) THEN NoObject
    ELSE IF /\ sProperty \in DOMAIN h[aIds[j]]
            /\ h[aIds[j]][sProperty].k = "string"
            /\ <<h[aIds[j]][sProperty].s>> = sValue
         THEN aIds[j]
         ELSE findInArrayFrom(h, aIds, j + 1, sProperty, sValue)

\* Helper.findInArray: the first element whose property sProperty is the string
\* sValue (a token sequence), or NoObject
findInArray(h, vArray, sProperty, sValue) ==
    findInArrayFrom(h, vArray.a, 1, sProperty, sValue)

\* Object.keys(v).length for an object value
KeyCount(h, v) == Cardinality(DOMAIN h[v.s])

\* Model.prototype.resolve: the absolute path for sPath relative to the context
\* path (NoContext: no context given), or <<>> (undefined) if there is none
NoContext == <<"no context">>

resolve(sPath, sContextPath) ==
    LET bIsRelative == sPath = <<>> \/ Head(sPath) # "/"
        sJoined ==
            IF sPath = <<>> THEN sContextPath
            ELSE IF sContextPath[Len(sContextPath)] = "/"
                 THEN sContextPath \o sPath
                 ELSE sContextPath \o <<"/">> \o sPath
        sResolvedPath ==
            IF ~bIsRelative THEN sPath
            ELSE IF sContextPath = NoContext THEN <<>> ELSE sJoined
    IN  IF /\ Len(sResolvedPath) > 1
           /\ sResolvedPath[Len(sResolvedPath)] = "/"
        THEN SubSeq(sResolvedPath, 1, Len(sResolvedPath) - 1)
        ELSE sResolvedPath

----------------------------------------------------------------------------
(* Outcome of running a promise callback up to its return, its throw or    *)
(* the next request for a type                                             *)

Return(sMetaPath, vValue) ==
    [kind |-> "return", sMetaPath |-> sMetaPath, value |-> vValue, i |-> 0,
     aSegments |-> <<>>, object |-> NoObject, property |-> "", error |-> ""]

Throw(sError) ==
    [kind |-> "throw", sMetaPath |-> <<>>, value |-> Undefined, i |-> 0,
     aSegments |-> <<>>, object |-> NoObject, property |-> "", error |-> sError]

\* Helper.requestTypeForNavigationProperty(that, oObject, sProperty) was called
Await(sMetaPath, i, aSegments, oObject, sProperty) ==
    [kind |-> "await", sMetaPath |-> sMetaPath, value |-> Undefined, i |-> i,
     aSegments |-> aSegments, object |-> oObject, property |-> sProperty,
     error |-> ""]

----------------------------------------------------------------------------
(* ODataMetaModel.prototype.requestMetaContext *)

NoChild(sMetaPath) ==
    [found |-> FALSE, object |-> NoObject, property |-> "", sMetaPath |-> sMetaPath]

RECURSIVE findChildFrom(_, _, _, _, _, _, _)
findChildFrom(h, oObject, aProperties, j, sName, bHidden, sMetaPath) ==
    IF j > Len(aProperties) THEN NoChild(sMetaPath)
    ELSE LET sProperty == aProperties[j]
             oChild ==
                 IF sProperty \in DOMAIN h[oObject]
                 THEN findInArray(h, h[oObject][sProperty], "Name", sName)
                 ELSE NoObject
         IN  IF oChild # NoObject
             THEN [found |-> TRUE, object |-> oChild, property |-> sProperty,
                   sMetaPath |->
                       IF bHidden THEN sMetaPath
                       ELSE sMetaPath \o <<"/", sProperty, "('", h[oChild].Name.s, "')">>]
             ELSE findChildFrom(h, oObject, aProperties, j + 1, sName, bHidden,
                                sMetaPath)

\* findChild: the child named sName in one of the array properties; the meta
\* path is extended unless bHidden
findChild(h, oObject, aProperties, sName, bHidden, sMetaPath) ==
    findChildFrom(h, oObject, aProperties, 1, sName, bHidden, sMetaPath)

\* findSetOrSingleton, not found: the caller raises "No EntitySet or Singleton"
findSetOrSingleton(h, oEntityContainer, sName, bHidden, sMetaPath) ==
    findChild(h, oEntityContainer, <<"EntitySets", "Singletons">>, sName, bHidden,
              sMetaPath)

\* variant: the type is always looked for in EntityType
TypePropertyOfSetOnly(sResultProperty) == "EntityType"

\* the property that holds the type of an entity set or of a singleton
TypeProperty(sResultProperty) ==
    IF sResultProperty = "EntitySets" THEN "EntityType" ELSE "Type"

\* variant: a type reference is taken to be resolved always
IsUnresolvedNever(h, oObject, sProperty) == FALSE

\* the type reference in oObject[sProperty] is not resolved yet
IsUnresolved(h, oObject, sProperty) == KeyCount(h, h[oObject][sProperty]) = 1

\* i after the segment at i and an index that follows it
SkipIndex(aSegments, i) ==
    IF rNumberTest(aSegments, i + 1) THEN i + 2 ELSE i + 1

RECURSIVE followPathLoop(_, _, _, _, _)
followPathLoop(h, aSegments, i, sMetaPath, oType) ==
    LET oResult ==
            findChild(h, oType, <<"Properties", "NavigationProperties">>,
                      SegmentAt(aSegments, i), FALSE, sMetaPath)
        oProperty == oResult.object
        iNext == SkipIndex(aSegments, i)
    IN  IF ~oResult.found THEN Throw("Unknown property")
        ELSE IF ~Truthy(aSegments, iNext) THEN Return(oResult.sMetaPath, Undefined)
        ELSE IF "Type" \notin DOMAIN h[oProperty] THEN Throw("TypeError")
        ELSE IF IsUnresolved(h, oProperty, "Type")
             THEN Await(oResult.sMetaPath \o <<"/", "Type">>, iNext, aSegments,
                        oProperty, "Type")
             ELSE followPathLoop(h, aSegments, iNext,
                                 oResult.sMetaPath \o <<"/", "Type">>,
                                 h[oProperty].Type.s)

\* followPath of requestMetaContext, from the type at position i - 1
metaFollowPath(h, aSegments, i, sMetaPath, oType) ==
    IF ~Truthy(aSegments, i) THEN Return(sMetaPath, Undefined)
    ELSE followPathLoop(h, aSegments, i, sMetaPath, oType)

\* variant: the end of the path is not looked for before the switch to the type
RECURSIVE followBindingsNoEnd(_, _, _, _, _, _)
followBindingsNoEnd(h, oEntityContainer, aSegments, i, sMetaPath, oResult) ==
    LET sProperty == TypeProperty(oResult.property)
        iNext == SkipIndex(aSegments, i)
        oNavigationResult ==
            findChild(h, oResult.object, <<"NavigationPropertyBindings">>,
                      SegmentAt(aSegments, iNext), FALSE, sMetaPath)
        oTarget == h[h[oNavigationResult.object].Target.s]
        sName == IF "Name" \in DOMAIN oTarget THEN oTarget.Name.s ELSE ""
        oNext ==
            findSetOrSingleton(h, oEntityContainer, <<sName>>, TRUE,
                               oNavigationResult.sMetaPath)
    IN  IF ~oNavigationResult.found
        THEN Await(sMetaPath \o <<"/", sProperty>>, iNext, aSegments,
                   oResult.object, sProperty)
        ELSE IF sName = "" THEN Throw("Unsupported cross-service reference")
        ELSE IF ~oNext.found THEN Throw("No EntitySet or Singleton found")
        ELSE followBindingsNoEnd(h, oEntityContainer, aSegments, iNext,
                                 oNext.sMetaPath \o <<"/", "Target">>, oNext)

RECURSIVE followBindings(_, _, _, _, _, _)
followBindings(h, oEntityContainer, aSegments, i, sMetaPath, oResult) ==
    LET sProperty == TypeProperty(oResult.property)
        iNext == SkipIndex(aSegments, i)
        oNavigationResult ==
            findChild(h, oResult.object, <<"NavigationPropertyBindings">>,
                      SegmentAt(aSegments, iNext), FALSE, sMetaPath)
        oTarget == h[h[oNavigationResult.object].Target.s]
        sName == IF "Name" \in DOMAIN oTarget THEN oTarget.Name.s ELSE ""
        oNext ==
            findSetOrSingleton(h, oEntityContainer, <<sName>>, TRUE,
                               oNavigationResult.sMetaPath)
    IN  IF ~Truthy(aSegments, iNext) THEN Return(sMetaPath, Undefined)
        ELSE IF ~oNavigationResult.found
             THEN Await(sMetaPath \o <<"/", sProperty>>, iNext, aSegments,
                        oResult.object, sProperty)
        ELSE IF sName = "" THEN Throw("Unsupported cross-service reference")
        ELSE IF ~oNext.found THEN Throw("No EntitySet or Singleton found")
        ELSE followBindings(h, oEntityContainer, aSegments, iNext,
                            oNext.sMetaPath \o <<"/", "Target">>, oNext)

\* the callback on the entity container
metaOnContainer(h, oEntityContainer, aSegments) ==
    LET sName == rEntitySetNameExec(aSegments[1])
        oResult == findSetOrSingleton(h, oEntityContainer, <<sName>>, FALSE, <<>>)
    IN  IF ~oResult.found THEN Throw("No EntitySet or Singleton found")
        ELSE followBindings(h, oEntityContainer, aSegments, 0, oResult.sMetaPath,
                            oResult)

\* the part of requestMetaContext that runs before a promise exists
metaSync(sPath) ==
    LET aSegments == splitPath(sPath)
    IN  IF aSegments = <<>> THEN Throw("Unsupported")
        ELSE IF rEntitySetNameExec(aSegments[1]) = NoObject THEN Throw("Unsupported")
        ELSE Await(<<>>, 0, aSegments, NoObject, "")

----------------------------------------------------------------------------
(* ODataMetaModel.prototype.requestObject *)

IndexOf(sToken) == IF sToken = "0" THEN 0 ELSE 1

\* sProperty in vObject, for an object or an array
HasProperty(h, vObject, sProperty) ==
    IF vObject.k = "object" THEN sProperty \in DOMAIN h[vObject.s]
    ELSE \/ sProperty = "length"
         \/ sProperty \in DigitTokens /\ IndexOf(sProperty) < Len(vObject.a)

\* vObject[sProperty]
GetProperty(h, vObject, sProperty) ==
    IF vObject.k = "object" THEN h[vObject.s][sProperty]
    ELSE IF sProperty = "length"
         THEN Num(IF Len(vObject.a) = 0 THEN "0"
                  ELSE IF Len(vObject.a) = 1 THEN "1" ELSE "2")
         ELSE Ref(vObject.a[IndexOf(sProperty) + 1])

\* an object that is no array and has exactly one key: a type not resolved yet
IsPlaceholder(h, vNextObject) ==
    vNextObject.k = "object" /\ KeyCount(h, vNextObject) = 1

RECURSIVE objectFollowPath(_, _, _)
objectFollowPath(h, aSegments, vObject) ==
    IF aSegments = <<>> THEN Return(<<>>, vObject)
    ELSE LET oPart == parseSegment(Head(aSegments))
             vNextObject == GetProperty(h, vObject, oPart.property)
             oFound == findInArray(h, vNextObject, "Name", <<oPart.name>>)
         IN  IF ~oPart.valid THEN Throw("Invalid segment")
             ELSE IF vObject.k \notin {"object", "array"} THEN Throw("TypeError")
             ELSE IF ~HasProperty(h, vObject, oPart.property) THEN Throw("Unknown")
             ELSE IF oPart.named
                  THEN IF vNextObject.k # "array" THEN Throw("is not an array")
                       ELSE IF oFound = NoObject THEN Throw("Unknown")
                       ELSE objectFollowPath(h, Tail(aSegments), Ref(oFound))
             ELSE IF IsPlaceholder(h, vNextObject)
                  THEN Await(<<>>, 0, Tail(aSegments), vObject.s, oPart.property)
                  ELSE objectFollowPath(h, Tail(aSegments), vNextObject)

\* the part of requestObject that runs before a promise exists
objectSync(sPath, sContextPath) ==
    LET sResolvedPath == resolve(sPath, sContextPath)
    IN  IF sResolvedPath = <<>> THEN Throw("Not an absolute path")
        ELSE Await(<<>>, 0, splitPath(sResolvedPath), NoObject, "")

----------------------------------------------------------------------------
(* ODataMetaModel.prototype.requestUI5Type *)

Ui5EdmTypes ==
    {"Edm.Boolean", "Edm.Byte", "Edm.Date", "Edm.Decimal", "Edm.Double", "Edm.Guid",
     "Edm.Int16", "Edm.Int32", "Edm.Int64", "Edm.SByte", "Edm.Single", "Edm.String"}

\* mUi5TypeForEdmType[sQualifiedName].type
Ui5TypeName(sQualifiedName) ==
    CASE sQualifiedName = "Edm.Boolean" -> "sap.ui.model.odata.type.Boolean"
      [] sQualifiedName = "Edm.Byte" -> "sap.ui.model.odata.type.Byte"
      [] sQualifiedName = "Edm.Date" -> "sap.ui.model.odata.type.Date"
      [] sQualifiedName = "Edm.Decimal" -> "sap.ui.model.odata.type.Decimal"
      [] sQualifiedName = "Edm.Double" -> "sap.ui.model.odata.type.Double"
      [] sQualifiedName = "Edm.Guid" -> "sap.ui.model.odata.type.Guid"
      [] sQualifiedName = "Edm.Int16" -> "sap.ui.model.odata.type.Int16"
      [] sQualifiedName = "Edm.Int32" -> "sap.ui.model.odata.type.Int32"
      [] sQualifiedName = "Edm.Int64" -> "sap.ui.model.odata.type.Int64"
      [] sQualifiedName = "Edm.SByte" -> "sap.ui.model.odata.type.SByte"
      [] sQualifiedName = "Edm.Single" -> "sap.ui.model.odata.type.Single"
      [] sQualifiedName = "Edm.String" -> "sap.ui.model.odata.type.String"

\* mUi5TypeForEdmType[sQualifiedName].facets, empty where there are none
Ui5Facets(sQualifiedName) ==
    CASE sQualifiedName = "Edm.Decimal" ->
             [Precision |-> "precision", Scale |-> "scale"]
      [] sQualifiedName = "Edm.String" -> [MaxLength |-> "maxLength"]
      [] OTHER -> <<>>

\* oConstraints: undefined, or an object from constraint names to values
NoConstraints == [defined |-> FALSE, c |-> <<>>]

setConstraint(oConstraints, sKey, vValue) ==
    [defined |-> TRUE,
     c |-> [x \in DOMAIN oConstraints.c \cup {sKey} |->
                IF x = sKey THEN vValue ELSE oConstraints.c[x]]]

RECURSIVE facetConstraints(_, _, _, _, _)
facetConstraints(h, aFacets, j, mFacets, oConstraints) ==
    IF j > Len(aFacets) THEN oConstraints
    ELSE LET oFacet == h[aFacets[j]]
         IN  facetConstraints(h, aFacets, j + 1, mFacets,
                 IF oFacet.Name.s \in DOMAIN mFacets
                 THEN setConstraint(oConstraints, mFacets[oFacet.Name.s],
                                    oFacet.Value)
                 ELSE oConstraints)

nullableConstraintAlways(vNullable, oConstraints) ==
    setConstraint(oConstraints, "nullable", vNullable)

\* the constraint for a property that is not nullable
nullableConstraint(vNullable, oConstraints) ==
    IF vNullable = Bool(FALSE) THEN setConstraint(oConstraints, "nullable", Bool(FALSE))
    ELSE oConstraints

NoUi5Type == [type |-> "", oConstraints |-> NoConstraints]

\* the callback on the property: the UI5 type, or NoUi5Type with the error
ui5TypeOf(h, vProperty) ==
    LET oProperty == h[vProperty.s]
        sQualifiedName == h[oProperty.Type.s].QualifiedName.s
    IN  IF vProperty.k # "object" THEN [error |-> "TypeError", ui5 |-> NoUi5Type]
        ELSE IF ~({"Type", "Facets", "Nullable"} \subseteq DOMAIN oProperty)
             THEN [error |-> "No property", ui5 |-> NoUi5Type]
        ELSE IF sQualifiedName \notin Ui5EdmTypes
             THEN [error |-> "Unsupported EDM type", ui5 |-> NoUi5Type]
        ELSE [error |-> "",
              ui5 |-> [type |-> Ui5TypeName(sQualifiedName),
                       oConstraints |->
                           nullableConstraint(oProperty.Nullable,
                               facetConstraints(h, oProperty.Facets.a, 1,
                                   Ui5Facets(sQualifiedName), NoConstraints))]]

----------------------------------------------------------------------------
(* ODataMetaModel.prototype.requestCanonicalUrl *)

\* encodeURIComponent on the names of the service: \w characters stay, the
\* UTF-8 bytes of every other character are percent-encoded
encodeURIComponent(sName) ==
    IF sName = "EMPLOYÉS" THEN "EMPLOY%C3%89S" ELSE sName

\* Helper.getKeyPredicate(oEntityType, oEntityInstance)
getKeyPredicate(oEntityType, oEntityInstance) ==
    <<"getKeyPredicate", oEntityType, oEntityInstance>>

canonicalUrlUnencoded(h, sServiceUrl, oEntitySet, oEntityType, oEntityInstance) ==
    <<sServiceUrl, h[oEntitySet].Name.s, getKeyPredicate(oEntityType, oEntityInstance)>>

\* sServiceUrl + encodeURIComponent(oEntitySet.Name) + key predicate, as the
\* sequence of the concatenated parts
canonicalUrl(h, sServiceUrl, oEntitySet, oEntityType, oEntityInstance) ==
    <<sServiceUrl, encodeURIComponent(h[oEntitySet].Name.s),
      getKeyPredicate(oEntityType, oEntityInstance)>>

\* oEntitySet.EntityType is set
hasEntityType(h, vEntitySet) ==
    vEntitySet.k = "object" /\ "EntityType" \in DOMAIN h[vEntitySet.s]

----------------------------------------------------------------------------
(* The calls made to the meta model *)

RECURSIVE joinSegments(_, _)
joinSegments(aSegments, j) ==
    IF j > Len(aSegments) THEN <<>>
    ELSE <<"/">> \o aSegments[j] \o joinSegments(aSegments, j + 1)

\* the absolute path with the given segments
JoinPath(aSegments) ==
    IF aSegments = <<>> THEN <<"/">> ELSE joinSegments(aSegments, 1)

\* first segments of data paths: an entity set with an index, a singleton, a
\* name that is no entity set, the empty segment
FirstDataSegments == {<<"TEAMS", "[", "0", "]">>, <<"Me">>, <<"Name">>, <<>>}

\* segments that follow: navigation properties, a property, an index, nothing
NextDataSegments ==
    {<<"TEAM_2_EMPLOYEES">>, <<"EMPLOYEE_2_MANAGER">>, <<"EMPLOYEE_2_EQUIPMENT">>,
     <<"Name">>, <<"0">>, <<>>}

\* the sequences of at most n segments, the first one from F, the others from S
SegmentsUpTo(F, S, n) ==
    {<<>>} \cup
    UNION {{<<f>> \o a : f \in F, a \in [1..k -> S]} : k \in 0..(n - 1)}

\* the data binding paths the calls are made with
DataPaths == {JoinPath(a) : a \in SegmentsUpTo(FirstDataSegments, NextDataSegments, MaxSegs)}

FirstMetaSegments ==
    {<<"EntitySets", "('", "TEAMS", "')">>, <<"Singletons", "('", "Me", "')">>,
     <<"EntitySets">>, <<"Name">>}

NextMetaSegments ==
    {<<"EntityType">>, <<"Type">>, <<"Properties", "('", "Name", "')">>,
     <<"NavigationProperties", "('", "EMPLOYEE_2_MANAGER", "')">>, <<"Name">>,
     <<"0">>}

\* the contexts requestObject is called with
MetaContexts ==
    {NoContext, <<"/">>, <<"/", "EntitySets", "('", "TEAMS", "')">>}

\* the meta model paths and contexts requestObject is called with
ObjectCalls ==
    {<<JoinPath(a), NoContext>> :
        a \in SegmentsUpTo(FirstMetaSegments, NextMetaSegments, MaxSegs)}
    \cup ({<<>>, <<"EntityType">>, <<"Name">>} \X MetaContexts)

ServiceUrls == {"/sap/opu/odata4/", "/"}

\* what fnRead(sPath, true) delivers
EntityInstances == {"e1", "e2"}

VARIABLES
    heap,                       \* the meta data objects by id
    oEntityContainerPromise,    \* "null", "pending" or "resolved"
    call                        \* the call in progress and its promise

vars == <<heap, oEntityContainerPromise, call>>

Idle ==
    [op |-> "none", pc |-> "idle", fn |-> "", stage |-> "",
     sPath |-> <<>>, sContextPath |-> NoContext, sServiceUrl |-> "",
     aSegments |-> <<>>, i |-> 0, sMetaPath |-> <<>>,
     object |-> NoObject, property |-> "",
     read |-> "none", oEntityInstance |-> "", oMetaContext |-> <<>>,
     oEntitySet |-> NoObject, nLoaded |-> 0,
     outcome |-> "none", error |-> "",
     value |-> Undefined, context |-> <<>>, ui5 |-> NoUi5Type, url |-> <<>>]

Init ==
    /\ heap = MetaData(DefaultDescriptor)
    /\ oEntityContainerPromise = "null"
    /\ call = Idle

\* the promise of the call is resolved
Resolved(c) == [c EXCEPT !.pc = "done", !.outcome = "resolved"]

\* the promise of the call is rejected with an Error; a promise that is
\* already rejected stays as it is
Rejected(c, sError) ==
    IF c.outcome = "rejected" THEN [c EXCEPT !.pc = "done"]
    ELSE [c EXCEPT !.pc = "done", !.outcome = "rejected", !.error = sError]

\* the call ends with an exception thrown to the caller; no promise exists
Thrown(c, sError) == [c EXCEPT !.pc = "done", !.outcome = "thrown", !.error = sError]

\* that.requestObject(sPath, oMetaContext) from within a promise callback
startRequestObject(c, sPath, sStage) ==
    LET r == objectSync(sPath, c.oMetaContext)
    IN  IF r.kind = "throw" THEN Rejected(c, r.error)
        ELSE [c EXCEPT !.fn = "requestObject", !.stage = sStage, !.pc = "container",
                       !.aSegments = r.aSegments]

\* requestMetaContext has resolved with the context for sMetaPath
metaResolved(c, sMetaPath) ==
    LET d == [c EXCEPT !.oMetaContext = sMetaPath]
    IN  CASE c.op = "requestMetaContext" -> Resolved([c EXCEPT !.context = sMetaPath])
          [] c.op = "requestUI5Type" -> startRequestObject(d, <<>>, "property")
          [] c.op = "requestCanonicalUrl" ->
                IF c.read = "ok" THEN startRequestObject(d, <<>>, "set")
                ELSE IF c.read = "pending" THEN [d EXCEPT !.pc = "read"]
                ELSE [d EXCEPT !.pc = "done"]

\* requestObject has resolved with vValue
objectResolved(c, h, vValue) ==
    CASE c.op = "requestObject" -> Resolved([c EXCEPT !.value = vValue])
      [] c.op = "requestUI5Type" ->
            LET r == ui5TypeOf(h, vValue)
            IN  IF r.error # "" THEN Rejected(c, r.error)
                ELSE Resolved([c EXCEPT !.ui5 = r.ui5])
      [] c.op = "requestCanonicalUrl" /\ c.stage = "set" ->
            IF ~hasEntityType(h, vValue) THEN Rejected(c, "Not an entity")
            ELSE startRequestObject([c EXCEPT !.oEntitySet = vValue.s],
                                    <<"EntityType">>, "type")
      [] c.op = "requestCanonicalUrl" /\ c.stage = "type" ->
            Resolved([c EXCEPT !.url =
                canonicalUrl(h, c.sServiceUrl, c.oEntitySet, vValue.s,
                             c.oEntityInstance)])

\* the call after a callback of c.fn ran with outcome r
Advance(c, h, r) ==
    CASE r.kind = "await" ->
            [c EXCEPT !.pc = "type", !.aSegments = r.aSegments, !.i = r.i,
                      !.sMetaPath = r.sMetaPath, !.object = r.object,
                      !.property = r.property]
      [] r.kind = "throw" -> Rejected(c, r.error)
      [] r.kind = "return" /\ c.fn = "requestMetaContext" ->
            metaResolved(c, r.sMetaPath)
      [] r.kind = "return" /\ c.fn = "requestObject" ->
            objectResolved(c, h, r.value)

\* Helper.requestEntityContainer: the promise is created on first use
containerRequested(sPromise) == IF sPromise = "null" THEN "pending" ELSE sPromise

\* the first, synchronous part of a call that starts with requestMetaContext
startMetaContext(c, sPath) ==
    LET r == metaSync(sPath)
    IN  /\ call' =
              IF r.kind = "throw" THEN Thrown(c, r.error)
              ELSE [c EXCEPT !.fn = "requestMetaContext", !.pc = "container",
                             !.outcome = "pending", !.aSegments = r.aSegments]
        /\ oEntityContainerPromise' =
              IF r.kind = "throw" THEN oEntityContainerPromise
              ELSE containerRequested(oEntityContainerPromise)
        /\ UNCHANGED heap

\* requestMetaContext(sPath) is called
CallRequestMetaContext ==
    /\ call.pc = "idle"
    /\ \E sPath \in DataPaths :
           startMetaContext([Idle EXCEPT !.op = "requestMetaContext",
                                         !.sPath = sPath], sPath)

\* requestUI5Type(sPath) is called
CallRequestUI5Type ==
    /\ call.pc = "idle"
    /\ \E sPath \in DataPaths :
           startMetaContext([Idle EXCEPT !.op = "requestUI5Type", !.sPath = sPath],
                            sPath)

\* requestCanonicalUrl(sServiceUrl, sPath, fnRead) is called: fnRead(sPath, true)
\* is called first
CallRequestCanonicalUrl ==
    /\ call.pc = "idle"
    /\ \E sServiceUrl \in ServiceUrls, sPath \in DataPaths :
           startMetaContext([Idle EXCEPT !.op = "requestCanonicalUrl",
                                         !.sPath = sPath,
                                         !.sServiceUrl = sServiceUrl,
                                         !.read = "pending"], sPath)

startObject(sPath, sContextPath) ==
    LET c == [Idle EXCEPT !.op = "requestObject", !.sPath = sPath,
                          !.sContextPath = sContextPath]
        r == objectSync(sPath, sContextPath)
    IN  /\ call' =
              IF r.kind = "throw" THEN Thrown(c, r.error)
              ELSE [c EXCEPT !.fn = "requestObject", !.pc = "container",
                             !.outcome = "pending", !.aSegments = r.aSegments]
        /\ oEntityContainerPromise' =
              IF r.kind = "throw" THEN oEntityContainerPromise
              ELSE containerRequested(oEntityContainerPromise)
        /\ UNCHANGED heap

\* requestObject(sPath, oContext) is called
CallRequestObject ==
    /\ call.pc = "idle"
    /\ \E o \in ObjectCalls : startObject(o[1], o[2])

\* the entity container is there: the callback registered on it runs
EntityContainerAvailable ==
    /\ call.pc = "container"
    /\ oEntityContainerPromise' = "resolved"
    /\ call' = Advance(call, heap,
                   IF call.fn = "requestMetaContext"
                   THEN metaOnContainer(heap, "EC", call.aSegments)
                   ELSE objectFollowPath(heap, call.aSegments, Ref("EC")))
    /\ UNCHANGED heap

\* Helper.requestTypeForNavigationProperty: the heap once the type is there;
\* a type that is not resolved yet is loaded and put in place of its placeholder
requestTypeForNavigationProperty(h, oObject, sProperty) ==
    IF KeyCount(h, h[oObject][sProperty]) = 1
    THEN [h EXCEPT ![oObject][sProperty] = Ref(LoadedType(h, h[oObject][sProperty].s))]
    ELSE h

\* oObject[sProperty] is an object, so that its type can be requested
hasTypeReference(h, oObject, sProperty) ==
    /\ oObject \in DOMAIN h
    /\ sProperty \in DOMAIN h[oObject]
    /\ h[oObject][sProperty].k = "object"

\* followPath on the type that was requested for call c
followPathOnType(c, h) ==
    IF c.fn = "requestMetaContext"
    THEN metaFollowPath(h, c.aSegments, c.i, c.sMetaPath, h[c.object][c.property].s)
    ELSE objectFollowPath(h, c.aSegments, h[c.object][c.property])

TypeAvailableRenaming ==
    /\ call.pc = "type"
    /\ hasTypeReference(heap, call.object, call.property)
    /\ heap' =
          [requestTypeForNavigationProperty(heap, call.object, call.property)
              EXCEPT ![call.object].Name = Str(call.property)]
    /\ call' = Advance(call, heap', followPathOnType(call, heap'))
    /\ UNCHANGED oEntityContainerPromise

\* the requested type is there: followPath runs on it; without an object to
\* request the type for, the request fails with a TypeError
TypeAvailable ==
    /\ call.pc = "type"
    /\ heap' =
          IF hasTypeReference(heap, call.object, call.property)
          THEN requestTypeForNavigationProperty(heap, call.object, call.property)
          ELSE heap
    /\ call' =
          LET c == [call EXCEPT !.nLoaded = IF heap' # heap THEN @ + 1 ELSE @]
          IN  IF hasTypeReference(heap, call.object, call.property)
              THEN Advance(c, heap', followPathOnType(c, heap'))
              ELSE Rejected(c, "TypeError")
    /\ UNCHANGED oEntityContainerPromise

\* fnRead(sPath, true) delivers the entity instance
EntityRead(oEntityInstance) ==
    /\ call.read = "pending"
    /\ call.pc \in {"container", "type", "read"}
    /\ call' =
          LET c == [call EXCEPT !.read = "ok", !.oEntityInstance = oEntityInstance]
          IN  IF call.pc = "read" THEN startRequestObject(c, <<>>, "set") ELSE c
    /\ UNCHANGED <<heap, oEntityContainerPromise>>

\* fnRead(sPath, true) fails: Promise.all rejects, the meta data requests go on
EntityReadFails ==
    /\ call.read = "pending"
    /\ call.pc \in {"container", "type", "read"}
    /\ call' =
          LET c == [call EXCEPT !.read = "failed", !.outcome = "rejected",
                                !.error = "read failed"]
          IN  IF call.pc = "read" THEN [c EXCEPT !.pc = "done"] ELSE c
    /\ UNCHANGED <<heap, oEntityContainerPromise>>

\* the caller has taken the result; the next call can be made
Finish ==
    /\ call.pc = "done"
    /\ call' = Idle
    /\ UNCHANGED <<heap, oEntityContainerPromise>>

Next ==
    \/ CallRequestMetaContext
    \/ CallRequestUI5Type
    \/ CallRequestCanonicalUrl
    \/ CallRequestObject
    \/ EntityContainerAvailable
    \/ TypeAvailable
    \/ \E oEntityInstance \in EntityInstances : EntityRead(oEntityInstance)
    \/ EntityReadFails
    \/ Finish

Spec == Init /\ [][Next]_vars

----------------------------------------------------------------------------
(* requestUI5Type over every descriptor of the property Name of the type   *)
(* Worker                                                                  *)

\* paths to the property via singleton, entity set and binding, to the
\* property of the other type, to a navigation property, to no property
PropertyPaths ==
    {JoinPath(a) :
        a \in {<<>>, << <<"Me">> >>, << <<"Me">>, <<"Name">> >>,
               << <<"Me">>, <<"EMPLOYEE_2_MANAGER">> >>,
               << <<"TEAMS", "[", "0", "]">>, <<"Name">> >>,
               << <<"TEAMS", "[", "0", "]">>, <<"TEAM_2_EMPLOYEES">>, <<"Name">> >>}}

InitUI5 ==
    /\ heap \in {MetaData(d) : d \in Descriptors}
    /\ oEntityContainerPromise = "null"
    /\ call = Idle

\* requestUI5Type(sPath) is called for one of the property paths
CallRequestUI5TypeOfProperty ==
    /\ call.pc = "idle"
    /\ \E sPath \in PropertyPaths :
           startMetaContext([Idle EXCEPT !.op = "requestUI5Type", !.sPath = sPath],
                            sPath)

NextUI5 ==
    \/ CallRequestUI5TypeOfProperty
    \/ EntityContainerAvailable
    \/ TypeAvailable
    \/ Finish

SpecUI5 == InitUI5 /\ [][NextUI5]_vars

----------------------------------------------------------------------------
(* The meta data graph, for the statements below *)

Range(a) == {a[j] : j \in DOMAIN a}

EntitySetIds(h) == Range(h["EC"].EntitySets.a)

SingletonIds(h) == Range(h["EC"].Singletons.a)

TypeIds == {"T_Team", "T_Worker", "T_Equipment"}

PlaceholderIds == {"PH_Team", "PH_Worker"}

\* the structural and the navigation properties of the types
PropertyIds(h) ==
    UNION {Range(h[t].Properties.a) \cup Range(h[t].NavigationProperties.a) :
              t \in TypeIds}

\* the heap with every type in place
AllResolved(h) ==
    [id \in DOMAIN h |->
        [key \in DOMAIN h[id] |->
            IF h[id][key].k = "object" /\ h[id][key].s \in PlaceholderIds
            THEN Ref(LoadedType(h, h[id][key].s))
            ELSE h[id][key]]]

\* requestMetaContext from callback outcome r on, every requested type
\* delivered at once, for at most n requests
RECURSIVE runMeta(_, _, _)
runMeta(h, r, n) ==
    IF r.kind # "await" \/ n = 0 THEN r
    ELSE IF r.object = NoObject
         THEN runMeta(h, metaOnContainer(h, "EC", r.aSegments), n - 1)
         ELSE LET h2 == requestTypeForNavigationProperty(h, r.object, r.property)
              IN  runMeta(h2, metaFollowPath(h2, r.aSegments, r.i, r.sMetaPath,
                                             h2[r.object][r.property].s), n - 1)

\* requestObject from callback outcome r on, in the same way
RECURSIVE runObject(_, _, _)
runObject(h, r, n) ==
    IF r.kind # "await" \/ n = 0 THEN r
    ELSE IF r.object = NoObject
         THEN runObject(h, objectFollowPath(h, r.aSegments, Ref("EC")), n - 1)
         ELSE LET h2 == requestTypeForNavigationProperty(h, r.object, r.property)
              IN  runObject(h2, objectFollowPath(h2, r.aSegments,
                                                 h2[r.object][r.property]), n - 1)

\* the object a meta path addresses, NoObject if it addresses none
ObjectAt(h, sMetaPath) ==
    LET r == runObject(h, objectSync(sMetaPath, NoContext), Len(sMetaPath) + 1)
    IN  IF r.kind = "return" /\ r.value.k = "object" THEN r.value.s ELSE NoObject

LastSegment(sMetaPath) ==
    LET aSegments == splitPath(sMetaPath) IN aSegments[Len(aSegments)]

MetaCallDone == call.op = "requestMetaContext" /\ call.pc = "done"

----------------------------------------------------------------------------
(* C1: every failure of requestMetaContext to determine a meta data        *)
(* context is delivered as a rejected promise, never in another way.       *)

C1_FailureIsRejection ==
    MetaCallDone /\ call.outcome # "resolved" => call.outcome = "rejected"

(* C2: requestObject always returns a promise that is resolved with the    *)
(* object or rejected with an error, also for a path that cannot be        *)
(* resolved to an absolute path.                                           *)

C2_ObjectPromise ==
    call.op = "requestObject" /\ call.pc = "done"
        => call.outcome \in {"resolved", "rejected"}

(* C3: the meta path of a resolved requestMetaContext addresses an entity  *)
(* set, a singleton or a property of a type, never a type or a binding,    *)
(* and does not end with /Type or /EntityType.                             *)

C3_ContextKind ==
    MetaCallDone /\ call.outcome = "resolved"
        => /\ ObjectAt(heap, call.context) \in
                  EntitySetIds(heap) \cup SingletonIds(heap) \cup PropertyIds(heap)
           /\ LastSegment(call.context) \notin {<<"Type">>, <<"EntityType">>}
           /\ LastSegment(call.context)[1] # "NavigationPropertyBindings"

C3_Witness ==
    /\ MetaCallDone /\ call.outcome = "resolved"
    /\ ObjectAt(heap, call.context) = "N_E2M"
    /\ call.nLoaded = 1

----------------------------------------------------------------------------
(* C4: requestMetaContext follows the NavigationPropertyBindings of the    *)
(* current entity set or singleton while the next segment names a binding  *)
(* to an entity set or singleton of the same container, appending          *)
(* /NavigationPropertyBindings('<name>')/Target per step; at the first     *)
(* segment that is no such binding it switches to the type (/EntityType    *)
(* for an entity set, /Type for a singleton) and from then on matches      *)
(* segments against Properties and NavigationProperties only.              *)
(*                                                                         *)
(* The walk as the statement describes it, on the graph with every type    *)
(* in place.  bCrossServiceFails: a segment that names a binding to        *)
(* another service ends the walk without a context, instead of being       *)
(* looked for in the type.                                                 *)

WalkFails == [ok |-> FALSE, sMetaPath |-> <<>>, object |-> NoObject]

WalkEnds(sMetaPath, oObject) ==
    [ok |-> TRUE, sMetaPath |-> sMetaPath, object |-> oObject]

\* the children of oObject in the array sProperty that are named as sSegment
Named(h, oObject, sProperty, sSegment) ==
    IF sProperty \in DOMAIN h[oObject]
    THEN {o \in Range(h[oObject][sProperty].a) : <<h[o].Name.s>> = sSegment}
    ELSE {}

MetaSegment(sProperty, sName) == <<"/", sProperty, "('", sName, "')">>

RECURSIVE walkType(_, _, _, _, _)
walkType(h, aSegments, i, sMetaPath, oType) ==
    LET aStructural == Named(h, oType, "Properties", SegmentAt(aSegments, i))
        aNavigation == Named(h, oType, "NavigationProperties", SegmentAt(aSegments, i))
        oProperty == CHOOSE o \in aStructural \cup aNavigation : TRUE
        sPropertyPath ==
            sMetaPath \o MetaSegment(IF aStructural # {} THEN "Properties"
                                     ELSE "NavigationProperties",
                                     h[oProperty].Name.s)
        iNext == SkipIndex(aSegments, i)
    IN  IF aStructural \cup aNavigation = {} THEN WalkFails
        ELSE IF ~Truthy(aSegments, iNext) THEN WalkEnds(sPropertyPath, oProperty)
        ELSE walkType(h, aSegments, iNext, sPropertyPath \o <<"/", "Type">>,
                      h[oProperty].Type.s)

RECURSIVE walkBindings(_, _, _, _, _, _)
walkBindings(h, aSegments, i, sMetaPath, oSet, bCrossServiceFails) ==
    LET iNext == SkipIndex(aSegments, i)
        aBindings ==
            Named(h, oSet, "NavigationPropertyBindings", SegmentAt(aSegments, iNext))
        aLocal ==
            {b \in aBindings :
                h[b].Target.s \in EntitySetIds(h) \cup SingletonIds(h)}
        oBinding == CHOOSE b \in aLocal : TRUE
        sTypeProperty == IF oSet \in EntitySetIds(h) THEN "EntityType" ELSE "Type"
    IN  IF ~Truthy(aSegments, iNext) THEN WalkEnds(sMetaPath, oSet)
        ELSE IF aLocal # {}
             THEN walkBindings(h, aSegments, iNext,
                      sMetaPath
                          \o MetaSegment("NavigationPropertyBindings",
                                         h[oBinding].Name.s)
                          \o <<"/", "Target">>,
                      h[oBinding].Target.s, bCrossServiceFails)
        ELSE IF aBindings # {} /\ bCrossServiceFails THEN WalkFails
        ELSE walkType(h, aSegments, iNext, sMetaPath \o <<"/", sTypeProperty>>,
                      h[oSet][sTypeProperty].s)

\* the walk for a data path whose first segment starts with an identifier
Walk(h, sPath, bCrossServiceFails) ==
    LET aSegments == splitPath(sPath)
        sName == <<aSegments[1][1]>>
        aSets == Named(h, "EC", "EntitySets", sName)
        aSingletons == Named(h, "EC", "Singletons", sName)
        oSet == CHOOSE o \in (IF aSets # {} THEN aSets ELSE aSingletons) : TRUE
    IN  IF aSets \cup aSingletons = {} THEN WalkFails
        ELSE walkBindings(h, aSegments, 0,
                 MetaSegment(IF aSets # {} THEN "EntitySets" ELSE "Singletons",
                             h[oSet].Name.s),
                 oSet, bCrossServiceFails)

\* the call returned a promise and that promise is settled as the walk says
SettledAsWalk(bCrossServiceFails) ==
    LET oWalk == Walk(AllResolved(heap), call.sPath, bCrossServiceFails)
    IN  /\ (call.outcome = "resolved") = oWalk.ok
        /\ oWalk.ok => call.context = oWalk.sMetaPath

----------------------------------------------------------------------------
(* C5: lazy loading does not change what a path resolves to: requestObject *)
(* and requestMetaContext end as they do on the graph with every type in   *)
(* place, and a type is loaded only where it is not resolved yet.          *)

EndsAsResolved ==
    LET oFull == AllResolved(heap)
        r == IF call.op = "requestMetaContext"
             THEN runMeta(oFull, metaSync(call.sPath), Len(call.sPath) + 2)
             ELSE runObject(oFull, objectSync(call.sPath, call.sContextPath),
                            Len(call.sPath) + Len(call.sContextPath) + 2)
    IN  /\ (call.outcome = "resolved") = (r.kind = "return")
        /\ call.outcome = "resolved" /\ call.op = "requestMetaContext"
               => call.context = r.sMetaPath
        /\ call.outcome = "resolved" /\ call.op = "requestObject"
               => call.value = r.value
        /\ call.outcome = "rejected" => call.error = r.error

C5_SameResult ==
    /\ call.op \in {"requestMetaContext", "requestObject"}
    /\ call.pc = "done"
    /\ call.outcome # "thrown"
    => EndsAsResolved

C5_LoadsOnlyUnresolved ==
    heap' # heap
        => /\ heap[call.object][call.property].s \in PlaceholderIds
           /\ heap' = [heap EXCEPT ![call.object][call.property] =
                           Ref(LoadedType(heap, heap[call.object][call.property].s))]

----------------------------------------------------------------------------
(* C6: for a data path that points to an entity, requestCanonicalUrl       *)
(* resolves with the service root URL, followed by the URI-encoded name of *)
(* the entity set the meta context of the path points to, followed by the  *)
(* key predicate of that set's entity type and the entity instance that    *)
(* fnRead delivered.                                                       *)

UrlCallDone == call.op = "requestCanonicalUrl" /\ call.pc = "done"

\* the entity set the meta context of the call's path points to, if any
PathEntitySet ==
    LET oWalk == Walk(AllResolved(heap), call.sPath, TRUE)
    IN  IF oWalk.ok /\ oWalk.object \in EntitySetIds(heap) THEN oWalk.object
        ELSE NoObject

C6_CanonicalUrl ==
    UrlCallDone /\ call.outcome # "thrown"
        => /\ PathEntitySet # NoObject /\ call.read = "ok"
                  => call.outcome = "resolved"
           /\ call.outcome = "resolved"
                  => /\ PathEntitySet # NoObject
                     /\ call.read = "ok"
                     /\ heap[PathEntitySet].EntityType.s \in TypeIds
                     /\ call.url =
                            <<call.sServiceUrl,
                              encodeURIComponent(heap[PathEntitySet].Name.s),
                              <<"getKeyPredicate", heap[PathEntitySet].EntityType.s,
                                call.oEntityInstance>> >>

C6_Witness ==
    /\ UrlCallDone /\ call.outcome = "resolved"
    /\ call.sServiceUrl = "/sap/opu/odata4/"
    /\ call.url[2] = "EMPLOY%C3%89S"
    /\ call.oEntityInstance = "e2"

(* C7: every failure of requestCanonicalUrl is a promise rejected with an  *)
(* Error; a path whose meta context is no entity set (a singleton, a       *)
(* property) is rejected with "Not an entity" and no URL is produced.      *)

C7_FailureIsRejectedPromise ==
    UrlCallDone /\ call.outcome # "resolved"
        => /\ call.outcome = "rejected"
           /\ call.url = <<>>
           /\ LET oWalk == Walk(AllResolved(heap), call.sPath, TRUE)
              IN  call.read = "ok" /\ oWalk.ok => call.error = "Not an entity"

(* C8: requestUI5Type resolves with the sap.ui.model.odata.type class      *)
(* named as the EDM type for a property of one of the twelve supported     *)
(* EDM types; in every other case the promise is rejected with the error   *)
(* and no type instance is created.                                        *)

Ui5CallDone == call.op = "requestUI5Type" /\ call.pc = "done"

\* the object the meta context of the call's path points to, if any
PathObject == Walk(AllResolved(heap), call.sPath, TRUE).object

IsProperty(h, oObject) ==
    oObject # NoObject /\ {"Type", "Facets", "Nullable"} \subseteq DOMAIN h[oObject]

EdmTypeOf(h, oProperty) == h[h[oProperty].Type.s].QualifiedName.s

C8_Ui5TypeOrRejection ==
    Ui5CallDone
        => /\ call.outcome \in {"resolved", "rejected"}
           /\ IF IsProperty(heap, PathObject)
                     /\ EdmTypeOf(heap, PathObject) \in Ui5EdmTypes
              THEN /\ call.outcome = "resolved"
                   /\ call.ui5.type = Ui5TypeName(EdmTypeOf(heap, PathObject))
              ELSE /\ call.outcome = "rejected"
                   /\ call.ui5 = NoUi5Type
                   /\ PathObject # NoObject
                          => call.error =
                                 IF IsProperty(heap, PathObject)
                                 THEN "Unsupported EDM type" ELSE "No property"

----------------------------------------------------------------------------
(* C9: the constraints of the UI5 type are exactly the values of the       *)
(* property's facets that are listed for the type (Precision -> precision  *)
(* and Scale -> scale for Edm.Decimal, MaxLength -> maxLength for          *)
(* Edm.String), plus nullable = false if and only if Nullable is false;    *)
(* other facets are ignored, and with nothing to set the constraints are   *)
(* undefined.                                                              *)

\* the facets listed for the type, as pairs of facet and constraint name
ListedFacets(sEdmType) ==
    CASE sEdmType = "Edm.Decimal" -> {<<"Precision", "precision">>, <<"Scale", "scale">>}
      [] sEdmType = "Edm.String" -> {<<"MaxLength", "maxLength">>}
      [] OTHER -> {}

\* the facets of the property that set a constraint, with the name of it
ApplyingFacets(h, oProperty) ==
    {x \in Range(h[oProperty].Facets.a) \X {m[2] : m \in ListedFacets(EdmTypeOf(h, oProperty))} :
        <<h[x[1]].Name.s, x[2]>> \in ListedFacets(EdmTypeOf(h, oProperty))}

ExpectedConstraints(h, oProperty) ==
    LET aApplying == ApplyingFacets(h, oProperty)
        aKeys == {x[2] : x \in aApplying}
                     \cup (IF h[oProperty].Nullable = Bool(FALSE) THEN {"nullable"}
                           ELSE {})
    IN  IF aKeys = {} THEN NoConstraints
        ELSE [defined |-> TRUE,
              c |-> [sKey \in aKeys |->
                        IF sKey = "nullable" THEN Bool(FALSE)
                        ELSE h[(CHOOSE x \in aApplying : x[2] = sKey)[1]].Value]]

C9_Constraints ==
    Ui5CallDone /\ call.outcome = "resolved"
        => call.ui5.oConstraints = ExpectedConstraints(heap, PathObject)

C9_Witness ==
    /\ Ui5CallDone /\ call.outcome = "resolved"
    /\ PathObject = "P_Worker_Name"
    /\ call.ui5.type = "sap.ui.model.odata.type.Decimal"
    /\ Len(heap["P_Worker_Name"].Facets.a) = 2
    /\ call.ui5.oConstraints =
           [defined |-> TRUE,
            c |-> [sKey \in {"scale", "nullable"} |->
                      IF sKey = "scale" THEN Num("2") ELSE Bool(FALSE)]]

----------------------------------------------------------------------------
(* C10: the meta model is read-only: no call of requestObject,             *)
(* requestMetaContext, requestUI5Type or requestCanonicalUrl changes a     *)
(* meta data object, except that a reference to an unresolved type         *)
(* placeholder is replaced by the reference to the loaded type.            *)

C10_OnlyPlaceholderReplaced ==
    /\ DOMAIN heap' = DOMAIN heap
    /\ \A id \in DOMAIN heap :
          /\ DOMAIN heap'[id] = DOMAIN heap[id]
          /\ \A key \in DOMAIN heap[id] :
                heap'[id][key] # heap[id][key]
                    => /\ heap[id][key].k = "object"
                       /\ heap[id][key].s \in PlaceholderIds
                       /\ heap'[id][key] = Ref(LoadedType(heap, heap[id][key].s))

C10_ReadOnly == [][C10_OnlyPlaceholderReplaced]_vars

C10_Witness ==
    /\ call.pc = "done"
    /\ heap["ES_TEAMS"].EntityType = Ref("T_Team")
    /\ heap["N_E2M"].Type = Ref("T_Worker")
    /\ heap["ES_EMPLOYEES"].EntityType = Ref("PH_Worker")
    /\ heap["T_Worker"] = MetaData(DefaultDescriptor)["T_Worker"]

----------------------------------------------------------------------------
(***************************************************************************)
(* sap.ui.rta.plugin.additionalElements.AdditionalElementsPlugin.          *)
(*                                                                         *)
(* The plugin does not use the meta model above: in its specifications     *)
(* heap holds the objects the plugin works on (dialog, composite command,  *)
(* overlays, the plugin itself), call is the call in progress and          *)
(* oEntityContainerPromise stays as it is.                                 *)
(***************************************************************************)

\* !v of JavaScript, for undefined, numbers and booleans
IsFalsy(v) == v = Undefined \/ v = Num(0) \/ v = Bool(FALSE)

\* v || w of JavaScript
JsOr(v, w) == IF IsFalsy(v) THEN w ELSE v

\* the injective functions from 1..n to 1..n
IndexPermutations(n) == {p \in [1..n -> 1..n] : \A j, k \in 1..n : p[j] = p[k] => j = k}

----------------------------------------------------------------------------
(* _createCommands and the creation of the commands per selected element   *)

\* the elements the dialog offers: id, label and type; field5 has a type
\* the plugin does not treat
DialogElements ==
    {[elementId |-> "field1", label |-> "b", type |-> "invisible"],
     [elementId |-> "field2", label |-> "a", type |-> "delegate"],
     [elementId |-> "field3", label |-> "c", type |-> "custom"],
     [elementId |-> "field4", label |-> "b", type |-> "custom"],
     [elementId |-> "field5", label |-> "c", type |-> "other"]}

\* what getSelectedElements() can deliver: up to MaxSelected different
\* elements in any order
Selections ==
    UNION {{a \in [1..n -> DialogElements] : \A j, k \in 1..n : a[j] = a[k] => j = k} :
              n \in 0..MaxSelected}

\* s1 < s2 for the labels
LabelLess(s1, s2) ==
    LET rank == [a |-> 1, b |-> 2, c |-> 3] IN rank[s1] < rank[s2]

\* the compare function given to sort: negative, positive or 0
compareLabels(oElement1, oElement2) ==
    IF LabelLess(oElement2.label, oElement1.label) THEN "negative"
    ELSE IF LabelLess(oElement1.label, oElement2.label) THEN "positive"
    ELSE "zero"

\* what aSelectedElements.sort(compare) can leave in the array: the order of
\* elements that compare as equal is up to the sort
SortResults(aSelectedElements) ==
    LET n == Len(aSelectedElements)
    IN  {a \in {[j \in 1..n |-> aSelectedElements[p[j]]] : p \in IndexPermutations(n)} :
            \A j, k \in 1..n : j < k => compareLabels(a[j], a[k]) # "positive"}

\* the types for which the forEach chains a creation of commands
TreatedTypes == {"invisible", "delegate", "custom"}

IsTreated(oSelectedElement) == oSelectedElement.type \in TreatedTypes

\* the selected elements for which a creation is chained, in the order of
\* the sorted array
chainedElements(aSelectedElements) == SelectSeq(aSelectedElements, IsTreated)

\* position iIndex given by the caller, or none
GivenIndices == {Undefined, Num(0), Num(2)}

\* what Utils.getIndex delivers for the sibling element
SiblingIndices == {Num(1), Num(2)}

\* index of the invisible element in its aggregation: Utils.getIndex(...) - 1
RevealedSourceIndex == Num(0)

\* ElementUtil.adjustIndexForMove for a move within one parent
adjustIndexForMove(iSourceIndex, iTargetIndex) ==
    IF iSourceIndex.s < iTargetIndex.s THEN Num(iTargetIndex.s - 1) ELSE iTargetIndex

\* a command as the command factory creates it
Command(sName, oSelectedElement, vIndex) ==
    [name |-> sName, elementId |-> oSelectedElement.elementId, index |-> vIndex]

\* the target index of the move command of a revealed element
revealTargetIndex(iIndex, iSiblingIndex) ==
    IF iIndex # Undefined THEN iIndex
    ELSE adjustIndexForMove(RevealedSourceIndex, iSiblingIndex)

\* _createMoveCommandForInvisible: a move command is needed
needsMove(iIndex, iSiblingIndex) ==
    revealTargetIndex(iIndex, iSiblingIndex) # RevealedSourceIndex

\* the index in the settings of the customAdd command
customAddIndex(iIndex, iSiblingIndex) == JsOr(iIndex, iSiblingIndex)

\* the index in the settings of the addDelegateProperty command
addViaDelegateIndex(iIndex, iSiblingIndex) ==
    IF iIndex # Undefined THEN iIndex ELSE iSiblingIndex

\* the command whose creation is requested first for an element of the type
firstCommand(sType) ==
    CASE sType = "invisible" -> "reveal"
      [] sType = "delegate" -> "addLibrary"
      [] sType = "custom" -> "customAdd"

\* the command whose creation is requested once sCommand is there, "done"
\* when the commands of the element are complete
nextCommand(sCommand) ==
    CASE sCommand = "reveal" -> "move"
      [] sCommand = "addLibrary" -> "addDelegateProperty"
      [] OTHER -> "done"

\* oPromise = oPromise.then(...): the creation for the element at position k
\* of the chain starts when the one before it is complete
CanStartUnchained(aStage, k) == TRUE

CanStart(aStage, k) == IF k = 1 THEN TRUE ELSE aStage[k - 1] = "done"

\* the index in the settings of command sCommand of call c
commandIndex(c, sCommand) ==
    CASE sCommand = "move" -> revealTargetIndex(c.iIndex, c.iSiblingIndex)
      [] sCommand = "addDelegateProperty" ->
            addViaDelegateIndex(c.iIndex, c.iSiblingIndex)
      [] sCommand = "customAdd" -> customAddIndex(c.iIndex, c.iSiblingIndex)
      [] OTHER -> Undefined

\* the factory is asked for the command at all: no addLibrary command when
\* no library is missing, no move command when the element stays in place
isRequested(c, sCommand) ==
    CASE sCommand = "addLibrary" -> c.bLibsMissing
      [] sCommand = "move" -> needsMove(c.iIndex, c.iSiblingIndex)
      [] OTHER -> TRUE

CommandsIdle ==
    [op |-> "none", pc |-> "idle", aChained |-> <<>>, aStage |-> <<>>,
     iIndex |-> Undefined, iSiblingIndex |-> Undefined, bLibsMissing |-> FALSE,
     outcome |-> "none", bFired |-> FALSE]

InitCommands ==
    /\ heap \in {[dialog |-> [aSelectedElements |-> a],
                  oCompositeCommand |-> [aCommands |-> <<>>]] : a \in Selections}
    /\ oEntityContainerPromise = "null"
    /\ call = CommandsIdle

\* _createCommands(mParents, oSiblingElement, mActions, iIndex) is called: the
\* selection is sorted in place; without selection the promise is resolved
CallCreateCommands ==
    /\ call.pc = "idle"
    /\ \E iIndex \in GivenIndices, iSiblingIndex \in SiblingIndices,
          bLibsMissing \in BOOLEAN,
          aSorted \in SortResults(heap.dialog.aSelectedElements) :
           /\ heap' = [heap EXCEPT !.dialog.aSelectedElements = aSorted]
           /\ call' =
                 LET c == [CommandsIdle EXCEPT !.op = "_createCommands",
                                               !.iIndex = iIndex,
                                               !.iSiblingIndex = iSiblingIndex,
                                               !.bLibsMissing = bLibsMissing]
                 IN  IF Len(aSorted) > 0 THEN [c EXCEPT !.pc = "composite"]
                     ELSE [c EXCEPT !.pc = "done", !.outcome = "resolved"]
    /\ UNCHANGED oEntityContainerPromise

\* the composite command is there: the creations are chained
CompositeCommandCreated ==
    /\ call.pc = "composite"
    /\ call' =
          LET aChained == chainedElements(heap.dialog.aSelectedElements)
          IN  [call EXCEPT !.pc = "chain", !.aChained = aChained,
                           !.aStage = [k \in DOMAIN aChained |-> "waiting"]]
    /\ UNCHANGED <<heap, oEntityContainerPromise>>

\* the creation of the commands for the element at position k starts
StartElement(k) ==
    /\ call.pc = "chain"
    /\ k \in DOMAIN call.aChained
    /\ call.aStage[k] = "waiting"
    /\ CanStart(call.aStage, k)
    /\ call' = [call EXCEPT !.aStage[k] = firstCommand(call.aChained[k].type)]
    /\ UNCHANGED <<heap, oEntityContainerPromise>>

\* the promise for the command the element at position k waits for is
\* resolved, with a command (bCommand) or with undefined; the reveal command
\* is added whatever it is, the others if there is one
CommandCreated(k, bCommand) ==
    /\ call.pc = "chain"
    /\ k \in DOMAIN call.aChained
    /\ call.aStage[k] \notin {"waiting", "done"}
    /\ bCommand => isRequested(call, call.aStage[k])
    /\ call.aStage[k] = "reveal" => bCommand
    /\ heap' =
          IF bCommand
          THEN [heap EXCEPT !.oCompositeCommand.aCommands =
                   Append(@, Command(call.aStage[k], call.aChained[k],
                                     commandIndex(call, call.aStage[k])))]
          ELSE heap
    /\ call' = [call EXCEPT !.aStage[k] = nextCommand(@)]
    /\ UNCHANGED oEntityContainerPromise

\* the command factory fails for the command the element at position k
\* waits for: the promise of _createCommands is rejected
CommandFails(k) ==
    /\ call.pc = "chain"
    /\ k \in DOMAIN call.aChained
    /\ call.aStage[k] \notin {"waiting", "done"}
    /\ isRequested(call, call.aStage[k])
    /\ call' = [call EXCEPT !.pc = "done", !.outcome = "rejected"]
    /\ UNCHANGED <<heap, oEntityContainerPromise>>

\* all chained creations are complete: fireElementModified with the composite
\* command, the promise is resolved
FireElementModified ==
    /\ call.pc = "chain"
    /\ \A k \in DOMAIN call.aStage : call.aStage[k] = "done"
    /\ call' = [call EXCEPT !.pc = "done", !.outcome = "resolved", !.bFired = TRUE]
    /\ UNCHANGED <<heap, oEntityContainerPromise>>

NextCommands ==
    \/ CallCreateCommands
    \/ CompositeCommandCreated
    \/ \E k \in 1..MaxSelected : StartElement(k)
    \/ \E k \in 1..MaxSelected, bCommand \in BOOLEAN : CommandCreated(k, bCommand)
    \/ \E k \in 1..MaxSelected : CommandFails(k)
    \/ FireElementModified

SpecCommands == InitCommands /\ [][NextCommands]_vars

----------------------------------------------------------------------------
(* C11: _createCommands processes the selected elements in descending      *)
(* order of their label, one after the other: a command of an element is   *)
(* added to the composite command after all commands of every selected     *)
(* element with a greater label and before those of every element with a   *)
(* smaller label, however long the creations of the commands take.         *)

\* the label of the selected element a command belongs to
LabelOf(oCommand) ==
    (CHOOSE e \in DialogElements : e.elementId = oCommand.elementId).label

CreateCommandsRunning == call.op = "_createCommands" /\ call.pc \in {"chain", "done"}

C11_DescendingOneByOne ==
    CreateCommandsRunning
        => LET aCommands == heap.oCompositeCommand.aCommands
           IN  /\ \A p, q \in DOMAIN aCommands :
                     p < q => ~LabelLess(LabelOf(aCommands[p]), LabelOf(aCommands[q]))
               /\ \A p \in DOMAIN aCommands, k \in DOMAIN call.aChained :
                     LabelLess(LabelOf(aCommands[p]), call.aChained[k].label)
                         => call.aStage[k] = "done"
               /\ \A j, k \in DOMAIN call.aChained :
                     /\ call.aStage[j] \notin {"waiting", "done"}
                     /\ call.aStage[k] \notin {"waiting", "done"}
                     => j = k

C11_Witness ==
    /\ call.op = "_createCommands" /\ call.pc = "done" /\ call.bFired
    /\ [p \in DOMAIN heap.oCompositeCommand.aCommands |->
           heap.oCompositeCommand.aCommands[p].elementId]
           = <<"field3", "field1", "field1", "field2">>

----------------------------------------------------------------------------
(* getMenuItems, _buildMenuItem, _buildSubmenuItems and the cache of        *)
(* getAllElements                                                          *)

SiblingOrChild(bOverlayIsSibling) == IF bOverlayIsSibling THEN "asSibling" ELSE "asChild"

ChildAggregations == {"content", "items", "footer"}

\* what getAllElements(false, ...) can deliver: the aggregations that have
\* elements, each once, at most MaxAggregations of them
ChildElementLists ==
    UNION {{a \in [1..n -> {[aggregation |-> x] : x \in ChildAggregations}] :
                \A j, k \in 1..n : a[j] = a[k] => j = k} : n \in 0..MaxAggregations}

\* what getAllElements(true, ...) can deliver: the aggregation of the parent
\* the overlay is in, if it has elements
SiblingElementLists == {<<>>, <<[aggregation |-> "formElements"]>>}

\* _buildSubmenuItems(bOverlayIsSibling, aElementOverlays, aElementsWithAggregation);
\* the id sPluginId + '_' + iPosition is the sequence of its parts
buildSubmenuItems(bOverlayIsSibling, aElementsWithAggregation) ==
    LET sPluginId == IF bOverlayIsSibling THEN "CTX_ADD_ELEMENTS_AS_SIBLING"
                     ELSE "CTX_ADD_ELEMENTS_AS_CHILD"
    IN  [iPosition \in DOMAIN aElementsWithAggregation |->
            [id |-> <<sPluginId, "_", iPosition - 1>>,
             bOverlayIsSibling |-> bOverlayIsSibling,
             aggregation |-> aElementsWithAggregation[iPosition].aggregation]]

\* _buildMenuItem(sPluginId, bOverlayIsSibling, aElementOverlays,
\* aElementsWithAggregations, bHasSubMenu); aElementsWithAggregations[0] is
\* .asChild, [1] is .asSibling
buildMenuItem(sPluginId, bOverlayIsSibling, aElementsWithAggregations, bHasSubMenu) ==
    LET aRelevantElements ==
            aElementsWithAggregations[SiblingOrChild(bOverlayIsSibling)]
        aChildItems == buildSubmenuItems(FALSE, aElementsWithAggregations.asChild)
    IN  [id |-> <<sPluginId>>,
         bOverlayIsSibling |-> bOverlayIsSibling,
         aggregation |-> IF Len(aRelevantElements) > 0
                         THEN Str(aRelevantElements[1].aggregation) ELSE Undefined,
         bHasSubMenu |-> bHasSubMenu,
         submenu |->
            IF ~bHasSubMenu THEN <<>>
            ELSE IF sPluginId = "CTX_ADD_ELEMENTS_CHILD_AND_SIBLING"
                 THEN aChildItems
                          \o buildSubmenuItems(TRUE, aElementsWithAggregations.asSibling)
            ELSE aChildItems]

\* the callback of getMenuItems on the elements of both modes
menuItems(aElementsWithAggregations, bIsAvailableForChildren, bIsAvailableForSibling) ==
    LET bHasChildren == Len(aElementsWithAggregations.asChild) > 0
        bHasMultipleAggregations == Len(aElementsWithAggregations.asChild) > 1
        bHasSiblings == Len(aElementsWithAggregations.asSibling) > 0
    IN  IF bIsAvailableForSibling /\ (~bIsAvailableForChildren \/ ~bHasChildren)
        THEN <<buildMenuItem("CTX_ADD_ELEMENTS_AS_SIBLING", TRUE,
                             aElementsWithAggregations, FALSE)>>
        ELSE IF ~bIsAvailableForSibling /\ bIsAvailableForChildren
                    /\ ~bHasMultipleAggregations
        THEN <<buildMenuItem("CTX_ADD_ELEMENTS_AS_CHILD", FALSE,
                             aElementsWithAggregations, FALSE)>>
        ELSE IF ~bIsAvailableForSibling /\ bIsAvailableForChildren
                    /\ bHasMultipleAggregations
        THEN <<buildMenuItem("CTX_ADD_ELEMENTS_AS_CHILD", FALSE,
                             aElementsWithAggregations, TRUE)>>
        ELSE IF bIsAvailableForChildren /\ bIsAvailableForSibling
                    /\ bHasChildren /\ bHasSiblings
        THEN <<buildMenuItem("CTX_ADD_ELEMENTS_CHILD_AND_SIBLING", FALSE,
                             aElementsWithAggregations, TRUE)>>
        ELSE <<>>

\* setCachedElements(aElements, bOverlayIsSibling) on the value of
\* this._oCachedElements
setCachedElements(oCachedElements, aElements, bOverlayIsSibling) ==
    LET o == IF oCachedElements = Undefined
             THEN [asChild |-> Undefined, asSibling |-> Undefined]
             ELSE oCachedElements
    IN  [o EXCEPT ![SiblingOrChild(bOverlayIsSibling)] = Arr(aElements)]

MenuIdle ==
    [op |-> "none", pc |-> "idle",
     aElementsWithAggregations |-> [asChild |-> <<>>, asSibling |-> <<>>],
     bIsAvailable |-> [asChild |-> FALSE, asSibling |-> FALSE],
     aPending |-> {}, outcome |-> "none", aMenuItems |-> <<>>]

InitMenu ==
    /\ heap = [plugin |-> [_oCachedElements |-> Undefined]]
    /\ oEntityContainerPromise = "null"
    /\ call = MenuIdle

\* getMenuItems(aElementOverlays) is called: the cache is cleared and the
\* elements are requested for both modes
CallGetMenuItems ==
    /\ call.pc = "idle"
    /\ \E aChildren \in ChildElementLists, aSiblings \in SiblingElementLists,
          bChildren \in BOOLEAN, bSibling \in BOOLEAN :
           call' = [MenuIdle EXCEPT
                       !.op = "getMenuItems", !.pc = "collect",
                       !.aElementsWithAggregations =
                           [asChild |-> aChildren, asSibling |-> aSiblings],
                       !.bIsAvailable = [asChild |-> bChildren, asSibling |-> bSibling],
                       !.aPending = {TRUE, FALSE}, !.outcome = "pending"]
    /\ heap' = [heap EXCEPT !.plugin._oCachedElements = Undefined]
    /\ UNCHANGED oEntityContainerPromise

\* getAllElements(bOverlayIsSibling, ...) has its elements: they are cached;
\* with the elements of both modes the menu items are built
AllElementsCollected(bOverlayIsSibling) ==
    /\ call.pc = "collect"
    /\ bOverlayIsSibling \in call.aPending
    /\ heap' = [heap EXCEPT !.plugin._oCachedElements =
                   setCachedElements(@,
                       call.aElementsWithAggregations[SiblingOrChild(bOverlayIsSibling)],
                       bOverlayIsSibling)]
    /\ call' =
          LET c == [call EXCEPT !.aPending = @ \ {bOverlayIsSibling}]
          IN  IF c.aPending # {} THEN c
              ELSE IF c.outcome = "rejected" THEN [c EXCEPT !.pc = "done"]
              ELSE [c EXCEPT !.pc = "done", !.outcome = "resolved",
                             !.aMenuItems =
                                 menuItems(c.aElementsWithAggregations,
                                           c.bIsAvailable.asChild,
                                           c.bIsAvailable.asSibling)]
    /\ UNCHANGED oEntityContainerPromise

\* getAllElements(bOverlayIsSibling, ...) fails: the promise of getMenuItems
\* is rejected, the request for the other mode goes on
AllElementsFails(bOverlayIsSibling) ==
    /\ call.pc = "collect"
    /\ bOverlayIsSibling \in call.aPending
    /\ call' =
          LET c == [call EXCEPT !.aPending = @ \ {bOverlayIsSibling},
                                !.outcome = "rejected"]
          IN  IF c.aPending # {} THEN c ELSE [c EXCEPT !.pc = "done"]
    /\ UNCHANGED <<heap, oEntityContainerPromise>>

\* the context menu has taken the items; it can be opened again
MenuClosed ==
    /\ call.op = "getMenuItems"
    /\ call.pc = "done"
    /\ call' = MenuIdle
    /\ UNCHANGED <<heap, oEntityContainerPromise>>

NextMenu ==
    \/ CallGetMenuItems
    \/ \E bOverlayIsSibling \in BOOLEAN : AllElementsCollected(bOverlayIsSibling)
    \/ \E bOverlayIsSibling \in BOOLEAN : AllElementsFails(bOverlayIsSibling)
    \/ MenuClosed

SpecMenu == InitMenu /\ [][NextMenu]_vars

----------------------------------------------------------------------------
(* C12: getMenuItems returns two items, one for when the overlay is        *)
(* sibling and one for when it is child.                                   *)

MenuItemsReturned ==
    call.op = "getMenuItems" /\ call.pc = "done" /\ call.outcome = "resolved"

C12_TwoItems ==
    MenuItemsReturned
        => /\ Len(call.aMenuItems) = 2
           /\ \E j, k \in DOMAIN call.aMenuItems :
                 call.aMenuItems[j].bOverlayIsSibling
                     /\ ~call.aMenuItems[k].bOverlayIsSibling

(* C13: with more than one aggregation with elements to add as children,   *)
(* getMenuItems builds a submenu with one entry per such aggregation and   *)
(* the sibling entry, the child entries before the sibling entries, all    *)
(* entries with different ids.                                             *)

\* the entries of the submenu, as pairs of mode and aggregation
SubmenuEntries(oMenuItem) ==
    [j \in DOMAIN oMenuItem.submenu |->
        <<oMenuItem.submenu[j].bOverlayIsSibling, oMenuItem.submenu[j].aggregation>>]

\* the entries to expect: per aggregation with child elements, then per
\* aggregation with sibling elements where adding as sibling is available
ExpectedEntries(c) ==
    [j \in DOMAIN c.aElementsWithAggregations.asChild |->
        <<FALSE, c.aElementsWithAggregations.asChild[j].aggregation>>]
    \o (IF c.bIsAvailable.asSibling
        THEN [j \in DOMAIN c.aElementsWithAggregations.asSibling |->
                 <<TRUE, c.aElementsWithAggregations.asSibling[j].aggregation>>]
        ELSE <<>>)

C13_Submenu ==
    /\ MenuItemsReturned
    /\ call.bIsAvailable.asChild
    /\ Len(call.aElementsWithAggregations.asChild) > 1
    => /\ Len(call.aMenuItems) = 1
       /\ call.aMenuItems[1].bHasSubMenu
       /\ SubmenuEntries(call.aMenuItems[1]) = ExpectedEntries(call)
       /\ \A j, k \in DOMAIN call.aMenuItems[1].submenu :
             call.aMenuItems[1].submenu[j].id = call.aMenuItems[1].submenu[k].id
                 => j = k

----------------------------------------------------------------------------
(* C15: a given iIndex is the position where the element is added: the     *)
(* index of every move, addDelegateProperty and customAdd command created  *)
(* is iIndex when iIndex is given, 0 included, and is derived from the     *)
(* sibling element only when iIndex is not given.                          *)

\* the index derived from the sibling element for command sName
siblingDerivedIndex(sName, iSiblingIndex) ==
    IF sName = "move" THEN adjustIndexForMove(RevealedSourceIndex, iSiblingIndex)
    ELSE iSiblingIndex

C15_GivenIndexIsPosition ==
    CreateCommandsRunning
        => \A p \in DOMAIN heap.oCompositeCommand.aCommands :
              LET oCommand == heap.oCompositeCommand.aCommands[p]
              IN  oCommand.name \in {"move", "addDelegateProperty", "customAdd"}
                      => oCommand.index =
                            IF call.iIndex # Undefined THEN call.iIndex
                            ELSE siblingDerivedIndex(oCommand.name, call.iSiblingIndex)

----------------------------------------------------------------------------
(* showAvailableElements                                                   *)

\* what a promise can be rejected with: an Error or something else
Rejections == {"Error", "other"}

\* .catch(function(oError) { if (oError instanceof Error) { throw oError; } }):
\* the promise the catch returns
catchEverything(vError) == "resolved"

catchNonError(vError) == IF vError = "Error" THEN "rejected" ELSE "resolved"

\* mAllActions as _getActions delivers it: the aggregations with actions
AllActionsResults == SUBSET {"content", "items"}

\* mActions = mAllActions[sAggregationName], with the aggregation noted
actionsOfAggregation(mAllActions, sAggregationName) ==
    IF sAggregationName \in mAllActions
    THEN [k |-> "object", aggregation |-> sAggregationName]
    ELSE Undefined

\* the elements of the aggregation in aAllElements, [] without such an entry
elementsPerAggregation(aAllElements, sAggregationName) ==
    IF \E j \in DOMAIN aAllElements : aAllElements[j].aggregation = sAggregationName
    THEN <<sAggregationName>>
    ELSE <<>>

\* the title the dialog has after the call: with the display text, for the
\* one aggregation of the actions, or as it was
dialogTitle(sTitle, sDisplayText, mActions) ==
    IF ~IsFalsy(sDisplayText) THEN "HEADER_ADDITIONAL_ELEMENTS_WITH_AGGREGATION"
    ELSE IF mActions # Undefined THEN "HEADER_ADDITIONAL_ELEMENTS"
    ELSE sTitle

ShowIdle ==
    [op |-> "none", pc |-> "idle", bOverlayIsSibling |-> FALSE,
     sAggregationName |-> "none", sDisplayText |-> Undefined, mActions |-> Undefined,
     aAllElements |-> <<>>, vEarlyRejection |-> "none", bOpened |-> FALSE,
     bClosed |-> FALSE, bCommandsCreated |-> FALSE, bFocused |-> FALSE,
     outcome |-> "none"]

InitDialog ==
    /\ heap = [dialog |-> [bOpen |-> FALSE, bCustomFieldEnabled |-> FALSE,
                           bCustomFieldButtonVisible |-> FALSE, aElements |-> <<>>,
                           sTitle |-> "none"]]
    /\ oEntityContainerPromise = "null"
    /\ call = ShowIdle

\* showAvailableElements(bOverlayIsSibling, sAggregationName,
\* aResponsibleElementOverlays, iIndex, sControlName, sDisplayText) is called:
\* _getActions is asked
CallShowAvailableElements ==
    /\ call.pc = "idle"
    /\ \E bOverlayIsSibling \in BOOLEAN, sAggregationName \in {"content", "items"},
          sDisplayText \in {Undefined, Str("Group")} :
           call' = [ShowIdle EXCEPT !.op = "showAvailableElements", !.pc = "actions",
                                    !.bOverlayIsSibling = bOverlayIsSibling,
                                    !.sAggregationName = sAggregationName,
                                    !.sDisplayText = sDisplayText]
    /\ UNCHANGED <<heap, oEntityContainerPromise>>

\* the promise of _getActions is resolved: getAllElements is asked
ActionsResolved(mAllActions) ==
    /\ call.op = "showAvailableElements"
    /\ call.pc = "actions"
    /\ call' = [call EXCEPT !.pc = "elements",
                            !.mActions =
                                actionsOfAggregation(mAllActions, call.sAggregationName)]
    /\ UNCHANGED <<heap, oEntityContainerPromise>>

\* the promise of getAllElements is resolved: the custom field button is set
\* up; with extensibility info the extension data are added to the dialog
ElementsCollected(aCollectedElements, bExtensibilityInfo) ==
    /\ call.op = "showAvailableElements"
    /\ call.pc = "elements"
    /\ heap' = [heap EXCEPT !.dialog.bCustomFieldEnabled = bExtensibilityInfo,
                            !.dialog.bCustomFieldButtonVisible = bExtensibilityInfo]
    /\ call' = [call EXCEPT !.pc = IF bExtensibilityInfo THEN "extension" ELSE "open",
                            !.aAllElements = aCollectedElements]
    /\ UNCHANGED oEntityContainerPromise

\* the promise of addExtensionData is resolved
ExtensionDataAdded ==
    /\ call.op = "showAvailableElements"
    /\ call.pc = "extension"
    /\ call' = [call EXCEPT !.pc = "open"]
    /\ UNCHANGED <<heap, oEntityContainerPromise>>

\* the promise of _getActions, getAllElements or addExtensionData is rejected
\* with vError: the outer catch decides
StepRejected(vError) ==
    /\ call.op = "showAvailableElements"
    /\ call.pc \in {"actions", "elements", "extension"}
    /\ call' = [call EXCEPT !.pc = "done", !.vEarlyRejection = vError,
                            !.outcome = catchNonError(vError)]
    /\ UNCHANGED <<heap, oEntityContainerPromise>>

\* the dialog gets its elements and its title and is opened
OpenDialog ==
    /\ call.op = "showAvailableElements"
    /\ call.pc = "open"
    /\ heap' = [heap EXCEPT
                   !.dialog.aElements =
                       elementsPerAggregation(call.aAllElements, call.sAggregationName),
                   !.dialog.sTitle = dialogTitle(@, call.sDisplayText, call.mActions),
                   !.dialog.bOpen = TRUE]
    /\ call' = [call EXCEPT !.pc = "opened", !.bOpened = TRUE]
    /\ UNCHANGED oEntityContainerPromise

\* the user confirms the dialog: it closes, the promise of open() is resolved
\* and _createCommands is called
DialogOk ==
    /\ call.op = "showAvailableElements"
    /\ call.pc = "opened"
    /\ heap' = [heap EXCEPT !.dialog.bOpen = FALSE]
    /\ call' = [call EXCEPT !.pc = "commands", !.bClosed = TRUE]
    /\ UNCHANGED oEntityContainerPromise

\* the user cancels the dialog: it closes, the promise of open() is rejected
\* without an Error, which the inner catch takes as the cancelled dialog
DialogCancel ==
    /\ call.op = "showAvailableElements"
    /\ call.pc = "opened"
    /\ heap' = [heap EXCEPT !.dialog.bOpen = FALSE]
    /\ call' = [call EXCEPT !.pc = "done", !.bClosed = TRUE,
                            !.outcome = catchNonError("other")]
    /\ UNCHANGED oEntityContainerPromise

\* the promise of _createCommands is resolved: the overlay gets the focus
CommandsCreated ==
    /\ call.op = "showAvailableElements"
    /\ call.pc = "commands"
    /\ call' = [call EXCEPT !.pc = "done", !.bCommandsCreated = TRUE,
                            !.bFocused = TRUE, !.outcome = "resolved"]
    /\ UNCHANGED <<heap, oEntityContainerPromise>>

\* the promise of _createCommands is rejected with vError: the inner catch
\* decides, the outer catch passes an Error on
CommandsRejected(vError) ==
    /\ call.op = "showAvailableElements"
    /\ call.pc = "commands"
    /\ call' = [call EXCEPT !.pc = "done", !.outcome = catchNonError(vError)]
    /\ UNCHANGED <<heap, oEntityContainerPromise>>

\* the caller has the outcome; the dialog can be asked for again
ShowSettled ==
    /\ call.op = "showAvailableElements"
    /\ call.pc = "done"
    /\ call' = ShowIdle
    /\ UNCHANGED <<heap, oEntityContainerPromise>>

NextDialog ==
    \/ CallShowAvailableElements
    \/ \E mAllActions \in AllActionsResults : ActionsResolved(mAllActions)
    \/ \E aCollectedElements \in ChildElementLists, bExtensibilityInfo \in BOOLEAN :
          ElementsCollected(aCollectedElements, bExtensibilityInfo)
    \/ ExtensionDataAdded
    \/ \E vError \in Rejections : StepRejected(vError)
    \/ OpenDialog
    \/ DialogOk
    \/ DialogCancel
    \/ CommandsCreated
    \/ \E vError \in Rejections : CommandsRejected(vError)
    \/ ShowSettled

SpecDialog == InitDialog /\ [][NextDialog]_vars

----------------------------------------------------------------------------
(* C14: showAvailableElements returns a promise that resolves when the     *)
(* dialog closes: whenever the promise is resolved, the dialog was opened  *)
(* and closed before.                                                      *)

ShowResolved ==
    call.op = "showAvailableElements" /\ call.pc = "done" /\ call.outcome = "resolved"

----------------------------------------------------------------------------
(* registerElementOverlay                                                  *)

Overlays == 1..MaxOverlays

\* what the element of an overlay has: no model, a model without meta model,
\* a meta model without loaded, or a meta model with loaded()
ElementKinds == {"noModel", "noMetaModel", "noLoaded", "loaded"}

\* oModel && oMetaModel && oMetaModel.loaded
offersLoaded(sKind) == sKind = "loaded"

\* promise.then(callback): the callback is called once the promise is resolved
thenCallableAlways(sState) == TRUE

thenCallable(sState) == sState = "resolved"

RegisterIdle == [op |-> "none", pc |-> "idle", aThen |-> {}]

InitRegister ==
    /\ heap \in {[overlays |-> k,
                  oMetaModel |-> [loaded |-> "pending"],
                  plugin |-> [aRegistered |-> {}, aEvaluations |-> <<>>]] :
                    k \in [Overlays -> ElementKinds]}
    /\ oEntityContainerPromise = "null"
    /\ call = RegisterIdle

\* registerElementOverlay(oOverlay): the callback is attached to the promise
\* of loaded() where there is one, then the base class registers the overlay
RegisterElementOverlay(oOverlay) ==
    /\ oOverlay \notin heap.plugin.aRegistered
    /\ heap' = [heap EXCEPT !.plugin.aRegistered = @ \cup {oOverlay}]
    /\ call' = [call EXCEPT !.op = "registerElementOverlay",
                            !.aThen = IF offersLoaded(heap.overlays[oOverlay])
                                      THEN @ \cup {oOverlay} ELSE @]
    /\ UNCHANGED oEntityContainerPromise

\* the meta data arrive: the promise of loaded() is resolved
MetaModelLoaded ==
    /\ heap.oMetaModel.loaded = "pending"
    /\ heap' = [heap EXCEPT !.oMetaModel.loaded = "resolved"]
    /\ UNCHANGED <<call, oEntityContainerPromise>>

\* the meta data cannot be loaded: the promise of loaded() is rejected
MetaModelFails ==
    /\ heap.oMetaModel.loaded = "pending"
    /\ heap' = [heap EXCEPT !.oMetaModel.loaded = "rejected"]
    /\ UNCHANGED <<call, oEntityContainerPromise>>

\* the callback attached for oOverlay runs:
\* evaluateEditable([oOverlay], {onRegistration: true})
LoadedCallback(oOverlay) ==
    /\ oOverlay \in call.aThen
    /\ thenCallable(heap.oMetaModel.loaded)
    /\ heap' = [heap EXCEPT !.plugin.aEvaluations =
                   Append(@, [aOverlays |-> <<oOverlay>>, onRegistration |-> TRUE,
                              loaded |-> heap.oMetaModel.loaded])]
    /\ call' = [call EXCEPT !.aThen = @ \ {oOverlay}]
    /\ UNCHANGED oEntityContainerPromise

NextRegister ==
    \/ \E oOverlay \in Overlays : RegisterElementOverlay(oOverlay)
    \/ MetaModelLoaded
    \/ MetaModelFails
    \/ \E oOverlay \in Overlays : LoadedCallback(oOverlay)

SpecRegister == InitRegister /\ [][NextRegister]_vars

\* a callback of a resolved promise is run by the job queue
SpecRegisterFair ==
    SpecRegister /\ \A oOverlay \in Overlays : WF_vars(LoadedCallback(oOverlay))

----------------------------------------------------------------------------
(* C16: for every registered overlay whose element has a model with a meta *)
(* model offering loaded(), evaluateEditable is eventually invoked for     *)
(* exactly that overlay with onRegistration = true, and never before       *)
(* loaded() has resolved; every overlay is registered with the base class. *)

\* the overlays registered so far that have a meta model with loaded()
RegisteredWithLoaded ==
    {o \in heap.plugin.aRegistered : heap.overlays[o] = "loaded"}

EvaluatedFor(oOverlay) ==
    \E j \in DOMAIN heap.plugin.aEvaluations :
        heap.plugin.aEvaluations[j].aOverlays = <<oOverlay>>

\* the evaluations are for single overlays registered with a loaded() meta
\* model, once per overlay, with onRegistration, after loaded() has resolved
EvaluationsInOrder ==
    /\ \A j \in DOMAIN heap.plugin.aEvaluations :
          LET e == heap.plugin.aEvaluations[j]
          IN  /\ Len(e.aOverlays) = 1
              /\ e.aOverlays[1] \in RegisteredWithLoaded
              /\ e.onRegistration
              /\ e.loaded = "resolved"
    /\ \A j, k \in DOMAIN heap.plugin.aEvaluations :
          heap.plugin.aEvaluations[j].aOverlays = heap.plugin.aEvaluations[k].aOverlays
              => j = k
    /\ heap.plugin.aEvaluations # <<>> => heap.oMetaModel.loaded = "resolved"

C16_ExtraCheckAfterLoaded ==
    /\ []EvaluationsInOrder
    /\ \A o \in Overlays : (o \in RegisteredWithLoaded) ~> EvaluatedFor(o)

(* C16 as the code has it: the extra check is made if loaded() resolves;   *)
(* when the promise of loaded() is rejected or stays pending, the overlay  *)
(* is registered without the extra check.                                  *)

C16_ExtraCheckIfLoadedResolves ==
    /\ []EvaluationsInOrder
    /\ \A o \in Overlays :
          (o \in RegisteredWithLoaded /\ heap.oMetaModel.loaded = "resolved")
              ~> EvaluatedFor(o)
    /\ [](call.aThen \subseteq heap.plugin.aRegistered)
    /\ [][\A o \in Overlays :
             o \in heap'.plugin.aRegistered \ heap.plugin.aRegistered
                 => (o \in call'.aThen <=> offersLoaded(heap.overlays[o]))]_vars

C16_Witness ==
    /\ heap.plugin.aRegistered = Overlays
    /\ heap.overlays[1] = "loaded" /\ heap.overlays[2] = "noModel"
    /\ heap.oMetaModel.loaded = "resolved"
    /\ EvaluatedFor(1) /\ ~EvaluatedFor(2)
    /\ call.aThen = {}

----------------------------------------------------------------------------
(* _getActions and the cache of the actions at the overlay                 *)

ActionKinds == {"reveal", "addViaDelegate", "addViaCustom"}

Modes == {"asSibling", "asChild"}

otherMode(sSiblingOrChild) == IF sSiblingOrChild = "asSibling" THEN "asChild" ELSE "asSibling"

\* what _getRevealActions, _getAddViaDelegateActions and _getCustomAddActions
\* deliver for one mode: per kind the aggregations with such an action
ActionResults == [ActionKinds -> SUBSET {"content"}]

\* merge(aAllActions[0], aAllActions[1], aAllActions[2]): per aggregation the
\* kinds of actions there are for it
mergeActions(aAllActions) ==
    [sAggregation \in UNION {aAllActions[sKind] : sKind \in ActionKinds} |->
        {sKind \in ActionKinds : sAggregation \in aAllActions[sKind]}]

\* {}
EmptyActions == mergeActions([sKind \in ActionKinds |-> {}])

\* !bInvalidate && oSourceElementOverlay._mAddActions
useCacheIfAny(bInvalidate, mAddActions) == mAddActions # Undefined

useCache(bInvalidate, mAddActions) == ~bInvalidate /\ mAddActions # Undefined

\* oSourceElementOverlay._mAddActions || {asSibling: {}, asChild: {}}
addActionsOrEmpty(mAddActions) ==
    IF mAddActions = Undefined
    THEN [k |-> "object", asSibling |-> EmptyActions, asChild |-> EmptyActions]
    ELSE mAddActions

\* _getActionsOrUndef
getActionsOrUndef(sSiblingOrChild, mAddActions) ==
    IF mAddActions = Undefined THEN Undefined ELSE mAddActions[sSiblingOrChild]

ActionsIdle ==
    [op |-> "none", pc |-> "idle", sSiblingOrChild |-> "asChild", bInvalidate |-> FALSE,
     bComputed |-> FALSE, aAllActions |-> Undefined, mBefore |-> Undefined,
     vResult |-> Undefined, outcome |-> "none"]

\* an overlay without cached actions; designTime is what the design time
\* metadata and the controls currently offer per mode
InitActions ==
    /\ heap \in {[overlay |-> [_mAddActions |-> Undefined], designTime |-> d] :
                    d \in [Modes -> ActionResults]}
    /\ oEntityContainerPromise = "null"
    /\ call = ActionsIdle

\* _getActions(bSibling, oSourceElementOverlay, bInvalidate) is called: the
\* cached actions are returned, or the three kinds of actions are asked for
CallGetActions(bSibling, bInvalidate) ==
    /\ call.pc = "idle"
    /\ call' =
          LET c == [ActionsIdle EXCEPT !.op = "_getActions",
                                       !.sSiblingOrChild = SiblingOrChild(bSibling),
                                       !.bInvalidate = bInvalidate,
                                       !.mBefore = heap.overlay._mAddActions]
          IN  IF useCache(bInvalidate, heap.overlay._mAddActions)
              THEN [c EXCEPT !.pc = "done", !.outcome = "resolved",
                             !.vResult =
                                 heap.overlay._mAddActions[SiblingOrChild(bSibling)]]
              ELSE [c EXCEPT !.pc = "computing"]
    /\ UNCHANGED <<heap, oEntityContainerPromise>>

\* the four promises are resolved: the actions are merged, stored at the
\* overlay for the mode and delivered
ActionsComputed ==
    /\ call.op = "_getActions"
    /\ call.pc = "computing"
    /\ LET aAllActions == heap.designTime[call.sSiblingOrChild]
           mAllActions == mergeActions(aAllActions)
       IN  /\ heap' = [heap EXCEPT !.overlay._mAddActions =
                          [addActionsOrEmpty(@) EXCEPT ![call.sSiblingOrChild] = mAllActions]]
           /\ call' = [call EXCEPT !.pc = "done", !.outcome = "resolved",
                                   !.bComputed = TRUE, !.aAllActions = aAllActions,
                                   !.mBefore = heap.overlay._mAddActions,
                                   !.vResult = mAllActions]
    /\ UNCHANGED oEntityContainerPromise

\* one of the four promises is rejected: so is the promise of _getActions
ActionsFail ==
    /\ call.op = "_getActions"
    /\ call.pc = "computing"
    /\ call' = [call EXCEPT !.pc = "done", !.outcome = "rejected",
                            !.mBefore = heap.overlay._mAddActions]
    /\ UNCHANGED <<heap, oEntityContainerPromise>>

\* controls or design time metadata change: other actions are on offer
DesignTimeChanges(sSiblingOrChild, aAllActions) ==
    /\ call.pc \in {"idle", "computing"}
    /\ heap.designTime[sSiblingOrChild] # aAllActions
    /\ heap' = [heap EXCEPT !.designTime[sSiblingOrChild] = aAllActions]
    /\ UNCHANGED <<call, oEntityContainerPromise>>

\* the caller has the outcome
GetActionsSettled ==
    /\ call.op = "_getActions"
    /\ call.pc = "done"
    /\ call' = ActionsIdle
    /\ UNCHANGED <<heap, oEntityContainerPromise>>

NextActions ==
    \/ \E bSibling, bInvalidate \in BOOLEAN : CallGetActions(bSibling, bInvalidate)
    \/ ActionsComputed
    \/ ActionsFail
    \/ \E sSiblingOrChild \in Modes, aAllActions \in ActionResults :
          DesignTimeChanges(sSiblingOrChild, aAllActions)
    \/ GetActionsSettled

SpecActions == InitActions /\ [][NextActions]_vars

----------------------------------------------------------------------------
(* C17: with bInvalidate set, _getActions never returns cached actions:    *)
(* the actions are computed anew, the result replaces the overlay's cached *)
(* entry of the requested mode, and the cached entry of the other mode is  *)
(* left unchanged.                                                         *)

InvalidatedDone ==
    call.op = "_getActions" /\ call.pc = "done" /\ call.bInvalidate

\* the result is computed from what is on offer and is the cached entry
ComputedAnewAndCached ==
    /\ call.bComputed
    /\ call.aAllActions = heap.designTime[call.sSiblingOrChild]
    /\ call.vResult = mergeActions(heap.designTime[call.sSiblingOrChild])
    /\ heap.overlay._mAddActions # Undefined
    /\ heap.overlay._mAddActions[call.sSiblingOrChild] = call.vResult

C17_InvalidateRecomputes ==
    InvalidatedDone /\ call.outcome = "resolved"
        => /\ ComputedAnewAndCached
           /\ getActionsOrUndef(otherMode(call.sSiblingOrChild), heap.overlay._mAddActions)
                  = getActionsOrUndef(otherMode(call.sSiblingOrChild), call.mBefore)

(* C17 as the code has it: the entry of the other mode is left unchanged   *)
(* if the overlay has cached actions; if it has none, the entry of the     *)
(* other mode is set to the empty map. A rejected call leaves the cache as *)
(* it is.                                                                  *)

C17_InvalidateRecomputesOtherKeptOrEmpty ==
    /\ InvalidatedDone /\ call.outcome = "resolved"
          => /\ ComputedAnewAndCached
             /\ heap.overlay._mAddActions[otherMode(call.sSiblingOrChild)]
                    = IF call.mBefore = Undefined THEN EmptyActions
                      ELSE call.mBefore[otherMode(call.sSiblingOrChild)]
    /\ InvalidatedDone /\ call.outcome = "rejected"
          => heap.overlay._mAddActions = call.mBefore

C17_Witness ==
    /\ InvalidatedDone /\ call.outcome = "resolved" /\ call.sSiblingOrChild = "asChild"
    /\ call.mBefore # Undefined
    /\ call.mBefore.asChild = EmptyActions
    /\ call.vResult = mergeActions([reveal |-> {"content"}, addViaDelegate |-> {},
                                    addViaCustom |-> {"content"}])
    /\ heap.overlay._mAddActions.asChild = call.vResult
    /\ heap.overlay._mAddActions.asSibling =
           mergeActions([reveal |-> {}, addViaDelegate |-> {"content"},
                         addViaCustom |-> {}])
    /\ call.mBefore.asSibling = heap.overlay._mAddActions.asSibling

----------------------------------------------------------------------------
(* _isEditable and _isEditableCheck                                        *)

\* _isThereAnAggregationActionForSameAggregation: there are actions for the
\* aggregation the responsible element is in
isThereAnAggregationActionForSameAggregation(mActions, sParentAggregation) ==
    \E sAggregationName \in DOMAIN mActions : sAggregationName = sParentAggregation

\* the body of the callback given to some(): bEditable after the aggregation
\* with the actions aKinds
editableForAggregation(bEditable, aKinds, bOverlayIsSibling, bCheckAggregationsOnSelf) ==
    LET bReveal == IF ~bEditable /\ "reveal" \in aKinds THEN TRUE ELSE bEditable
        bDelegate == IF ~bReveal /\ ~bOverlayIsSibling /\ "addViaDelegate" \in aKinds
                     THEN bCheckAggregationsOnSelf ELSE bReveal
    IN  IF ~bDelegate /\ ~bOverlayIsSibling /\ "addViaCustom" \in aKinds
        THEN TRUE ELSE bDelegate

\* Object.keys(mActions).some(...) over the keys aKeys still to visit
RECURSIVE someAggregationEditable(_, _, _, _, _)
someAggregationEditable(mActions, aKeys, bEditable, bOverlayIsSibling, bOnSelf) ==
    IF aKeys = {} THEN FALSE
    ELSE LET sAggregationName == CHOOSE x \in aKeys : TRUE
             b == editableForAggregation(bEditable, mActions[sAggregationName],
                                         bOverlayIsSibling, bOnSelf)
         IN  IF b THEN TRUE
             ELSE someAggregationEditable(mActions, aKeys \ {sAggregationName}, b,
                                          bOverlayIsSibling, bOnSelf)

\* Utils.doIfAllControlsAreAvailable(aControls, fnCallback): the value of the
\* callback, undefined when a control is gone
doIfAllControlsAreAvailable(bControlsAvailable, bCallbackValue) ==
    IF bControlsAvailable THEN Bool(bCallbackValue) ELSE Undefined

\* the last then of _isEditableCheck: editable needs stable ids
withStableIds(vEditable, bStableId, bParentStableId) ==
    IF IsFalsy(vEditable) THEN vEditable ELSE Bool(bStableId /\ bParentStableId)

\* the value _isEditableCheck delivers once _getActions has delivered mActions
editableCheckValue(oOverlay, bOverlayIsSibling, mActions) ==
    withStableIds(
        doIfAllControlsAreAvailable(
            oOverlay.bControlsAvailable,
            someAggregationEditable(
                mActions, DOMAIN mActions,
                IF bOverlayIsSibling
                THEN isThereAnAggregationActionForSameAggregation(
                         mActions, oOverlay.sParentAggregation)
                ELSE FALSE,
                bOverlayIsSibling, oOverlay.bCheckAggregationsOnSelf)),
        oOverlay.bStableId, oOverlay.bParentStableId)

\* the object the then of _isEditable builds of the values of Promise.all
editableObjectSwapped(aPromiseValues) ==
    [k |-> "object", asSibling |-> aPromiseValues[2], asChild |-> aPromiseValues[1]]

editableObject(aPromiseValues) ==
    [k |-> "object", asSibling |-> aPromiseValues[1], asChild |-> aPromiseValues[2]]

EditableOverlays ==
    [bRelevantContainer : [Modes -> BOOLEAN], sParentAggregation : {"content", "items"},
     bControlsAvailable : BOOLEAN, bCheckAggregationsOnSelf : BOOLEAN,
     bStableId : BOOLEAN, bParentStableId : BOOLEAN, _mAddActions : {Undefined}]

CheckWaiting == [pc |-> "start", vValue |-> Undefined]

EditableIdle ==
    [op |-> "none", pc |-> "idle", aCheck |-> [sMode \in Modes |-> CheckWaiting],
     bRejected |-> FALSE, vResult |-> Undefined, outcome |-> "none"]

InitEditable ==
    /\ heap \in {[overlay |-> o, designTime |-> d] :
                    o \in EditableOverlays, d \in [Modes -> ActionResults]}
    /\ oEntityContainerPromise = "null"
    /\ call = EditableIdle

\* Promise.all and its then and catch: with both values the object is built,
\* with a rejection the error is logged and the result is undefined
allChecked(c) ==
    IF c.pc # "checking" THEN c
    ELSE IF \E sMode \in Modes : c.aCheck[sMode].pc = "rejected"
    THEN [c EXCEPT !.pc = "done", !.bRejected = TRUE, !.vResult = Undefined,
                   !.outcome = "resolved"]
    ELSE IF \A sMode \in Modes : c.aCheck[sMode].pc = "done"
    THEN [c EXCEPT !.pc = "done", !.outcome = "resolved",
                   !.vResult = editableObject(<<c.aCheck.asSibling.vValue,
                                                c.aCheck.asChild.vValue>>)]
    ELSE c

\* _isEditable(oOverlay, mPropertyBag) is called: both checks are started
CallIsEditable ==
    /\ call.pc = "idle"
    /\ call' = [EditableIdle EXCEPT !.op = "_isEditable", !.pc = "checking"]
    /\ UNCHANGED <<heap, oEntityContainerPromise>>

\* the first then of _isEditableCheck: false without relevant container
\* overlay, else _getActions is called with bInvalidate
CheckStarts(bOverlayIsSibling) ==
    LET sMode == SiblingOrChild(bOverlayIsSibling)
    IN  /\ call.op = "_isEditable"
        /\ call.pc \in {"checking", "done"}
        /\ call.aCheck[sMode].pc = "start"
        /\ call' =
              allChecked(
                  IF heap.overlay.bRelevantContainer[sMode]
                  THEN [call EXCEPT !.aCheck[sMode].pc = "actions"]
                  ELSE [call EXCEPT !.aCheck[sMode] =
                                        [pc |-> "done", vValue |-> Bool(FALSE)]])
        /\ UNCHANGED <<heap, oEntityContainerPromise>>

\* the promise of _getActions is resolved, the actions are stored at the
\* overlay: the check delivers its value
CheckActionsResolved(bOverlayIsSibling) ==
    LET sMode == SiblingOrChild(bOverlayIsSibling)
        mActions == mergeActions(heap.designTime[sMode])
    IN  /\ call.op = "_isEditable"
        /\ call.pc \in {"checking", "done"}
        /\ call.aCheck[sMode].pc = "actions"
        /\ heap' = [heap EXCEPT !.overlay._mAddActions =
                       [addActionsOrEmpty(@) EXCEPT ![sMode] = mActions]]
        /\ call' =
              allChecked(
                  [call EXCEPT !.aCheck[sMode] =
                      [pc |-> "done",
                       vValue |-> editableCheckValue(heap.overlay, bOverlayIsSibling,
                                                     mActions)]])
        /\ UNCHANGED oEntityContainerPromise

\* the promise of _getActions is rejected: so is the check
CheckActionsRejected(bOverlayIsSibling) ==
    LET sMode == SiblingOrChild(bOverlayIsSibling)
    IN  /\ call.op = "_isEditable"
        /\ call.pc \in {"checking", "done"}
        /\ call.aCheck[sMode].pc = "actions"
        /\ call' = allChecked([call EXCEPT !.aCheck[sMode].pc = "rejected"])
        /\ UNCHANGED <<heap, oEntityContainerPromise>>

NextEditable ==
    \/ CallIsEditable
    \/ \E bOverlayIsSibling \in BOOLEAN : CheckStarts(bOverlayIsSibling)
    \/ \E bOverlayIsSibling \in BOOLEAN : CheckActionsResolved(bOverlayIsSibling)
    \/ \E bOverlayIsSibling \in BOOLEAN : CheckActionsRejected(bOverlayIsSibling)

SpecEditable == InitEditable /\ [][NextEditable]_vars

----------------------------------------------------------------------------
(* C18: _isEditable returns an object with editable boolean values for     *)
(* asChild and asSibling for every overlay, asSibling being the result of  *)
(* the sibling check and asChild the result of the child check of the      *)
(* source element overlay.                                                 *)

IsEditableDone == call.op = "_isEditable" /\ call.pc = "done"

\* the overlay can take elements in the mode: there is a relevant container
\* overlay and, for a sibling, an action for the aggregation of the overlay
\* or a reveal action, for a child, a reveal or a custom add action or an
\* add via delegate action the aggregation allows
HasUsableAction(sMode) ==
    LET a == heap.designTime[sMode]
    IN  /\ heap.overlay.bRelevantContainer[sMode]
        /\ IF sMode = "asSibling"
           THEN \/ a["reveal"] # {}
                \/ heap.overlay.sParentAggregation
                       \in UNION {a[sKind] : sKind \in ActionKinds}
           ELSE \/ a["reveal"] # {}
                \/ a["addViaCustom"] # {}
                \/ a["addViaDelegate"] # {} /\ heap.overlay.bCheckAggregationsOnSelf

\* what the check of the mode is to deliver
ExpectedEditable(sMode) ==
    IF heap.overlay.bRelevantContainer[sMode] /\ ~heap.overlay.bControlsAvailable
    THEN Undefined
    ELSE Bool(HasUsableAction(sMode) /\ heap.overlay.bStableId
              /\ heap.overlay.bParentStableId)

====
